---- MODULE Spec2Model ----
(***************************************************************************)
(* A model of the rfc2md converters: XmlToMdConverter (lib/converter.py)   *)
(* and HtmlToMdConverter (lib/html_converter.py).                          *)
(*                                                                         *)
(* Text is a sequence of atoms.  An atom is a string that the code never   *)
(* looks inside: a word, a run of digits, one punctuation mark, a run of   *)
(* blanks, a line break.  A Markdown line is the sequence of the fragments *)
(* that the code's f-string joins.  An XML document is an element tree as  *)
(* lxml gives it: tag, attributes, text, tail and children.               *)
(***************************************************************************)
EXTENDS Integers, Sequences, FiniteSets, TLC

VARIABLES
    conv,                 \* the class of the converter object: "xml" or "html"
    file,                 \* self.xml_file / self.html_file: what is on disk
    pc,                   \* how far convert() has got
    root,                 \* XmlToMdConverter.root (None before the parse)
    soup,                 \* HtmlToMdConverter.soup (None before the parse)
    markdown_lines,       \* self.markdown_lines
    toc_entries,          \* XmlToMdConverter.toc_entries
    section_id_to_anchor, \* XmlToMdConverter.section_id_to_anchor
    metadata,             \* HtmlToMdConverter.metadata
    sections,             \* HtmlToMdConverter.sections
    result,               \* what convert() returned
    error,                \* what convert() raised
    calls,                \* the calls of convert() on the object that have returned
    processed,            \* download_rfc_recursive: the set passed down the calls
    output_dir,           \* the names of the files in the output directory
    stack,                \* the calls of download_rfc_recursive that have not returned
    requests              \* the calls of download_rfc and the requests they made

\* The state of the downloader (lib/downloader.py).
downloader == <<processed, output_dir, stack, requests>>
vars == <<conv, file, pc, root, soup, markdown_lines, toc_entries,
          section_id_to_anchor, metadata, sections, result, error, calls,
          processed, output_dir, stack, requests>>

----------------------------------------------------------------------------
(* Bounds of the model.                                                    *)

MaxDepth == 7
MaxCols == 2
MaxRows == 2
MaxLines == 3
MaxPre == 2
MaxCalls == 2
MaxItems == 3

----------------------------------------------------------------------------
(* Python values.                                                          *)

Min(a, b) == IF a < b THEN a ELSE b

RECURSIVE Rep(_, _)
\* s * n for a sequence s: n copies, none when n <= 0.
Rep(s, n) == IF n <= 0 THEN <<>> ELSE s \o Rep(s, n - 1)

RECURSIVE Flatten(_)
Flatten(ss) == IF ss = <<>> THEN <<>> ELSE Head(ss) \o Flatten(Tail(ss))

RECURSIVE JoinWith(_, _)
\* sep.join(parts), parts a sequence of texts.
JoinWith(sep, parts) ==
    IF parts = <<>> THEN <<>>
    ELSE IF Len(parts) = 1 THEN Head(parts)
    ELSE Head(parts) \o sep \o JoinWith(sep, Tail(parts))

Last(s) == s[Len(s)]
Front(s) == SubSeq(s, 1, Len(s) - 1)

\* The atoms str.strip() removes.
Whitespace == {" ", "   ", "\n", "\f", "\t"}
\* The number of characters of a blank atom.
WsLen(a) == IF a = "   " THEN 3 ELSE 1

RECURSIVE LStrip(_)
LStrip(t) == IF t # <<>> /\ Head(t) \in Whitespace THEN LStrip(Tail(t)) ELSE t
RECURSIVE RStrip(_)
RStrip(t) == IF t # <<>> /\ Last(t) \in Whitespace THEN RStrip(Front(t)) ELSE t
Strip(t) == LStrip(RStrip(t))

RECURSIVE Split(_, _)
\* text.split(sep): always at least one piece.
Split(t, sep) ==
    IF \A i \in 1..Len(t) : t[i] # sep THEN <<t>>
    ELSE LET i == CHOOSE k \in 1..Len(t) : t[k] = sep /\ \A j \in 1..(k - 1) : t[j] # sep
         IN <<SubSeq(t, 1, i - 1)>> \o Split(SubSeq(t, i + 1, Len(t)), sep)

\* int(s) for the spellings the model uses: the decimal literals are the
\* domain, every other string makes int() raise ValueError.
DecimalValue == [s \in {"0", "1", "2", "3", "-1"} |->
                   CASE s = "0" -> 0 [] s = "1" -> 1 [] s = "2" -> 2
                     [] s = "3" -> 3 [] s = "-1" -> 0 - 1]
IntRaises(s) == s \notin DOMAIN DecimalValue
PyInt(s) == DecimalValue[s]

\* The mark an uncaught exception leaves in a sequence of emitted lines:
\* nothing after it is ever appended.
Traceback == <<"Traceback", "ValueError">>
Raised(lines) == \E i \in 1..Len(lines) : lines[i] = Traceback
RECURSIVE BeforeRaise(_)
BeforeRaise(lines) ==
    IF lines = <<>> \/ Head(lines) = Traceback THEN <<>>
    ELSE <<Head(lines)>> \o BeforeRaise(Tail(lines))

----------------------------------------------------------------------------
(* The element tree.                                                       *)

NoAttrs == [a \in {} |-> ""]
\* An element the way lxml exposes it.
Elem(tag, attrs, text, kids) ==
    [tag |-> tag, attrs |-> attrs, text |-> text, tail |-> <<>>, kids |-> kids]
WithTail(e, tail) == [e EXCEPT !.tail = tail]
None == [tag |-> "None", attrs |-> NoAttrs, text |-> <<>>, tail |-> <<>>, kids |-> <<>>]

\* elem.get(name, default)
Get(e, name, default) == IF name \in DOMAIN e.attrs THEN e.attrs[name] ELSE default
\* elem.findall(tag): the direct children with that tag, in document order.
FindAll(e, tag) == SelectSeq(e.kids, LAMBDA k : k.tag = tag)
\* elem.find(tag): the first of them, or None.
Find(e, tag) == IF e = None \/ FindAll(e, tag) = <<>> THEN None ELSE Head(FindAll(e, tag))

----------------------------------------------------------------------------
(* XmlToMdConverter: text extraction.                                      *)

\* The cross-reference targets of the model that begin with "#".
HashTargets == {"#intro"}
\* The grave accent that Markdown puts around inline code (the character
\* itself cannot stand in a string of this language).
Backtick == "<grave>"
\* x or y, for texts: the first that is not empty.
Or(x, y) == IF x # <<>> THEN x ELSE y
\* An attribute value as text: nothing when it is the empty string.
AttrText(s) == IF s = "" THEN <<>> ELSE <<s>>

RECURSIVE _get_element_text(_)
RECURSIVE ChildrenText(_)
\* The loop body of _get_element_text over the children, tails included.
ChildrenText(kids) ==
    IF kids = <<>> THEN <<>>
    ELSE LET child == Head(kids)
             target == Get(child, "target", "")
             own ==
               CASE child.tag = "xref" ->
                      LET child_text == Or(child.text,
                                           Or(AttrText(Get(child, "derivedContent", "")),
                                              AttrText(target)))
                      IN IF target \in HashTargets
                         THEN <<"[">> \o child_text \o <<"](", target, ")">>
                         ELSE <<"[">> \o child_text \o <<"](#", target, ")">>
                 [] child.tag = "eref" ->
                      <<"[">> \o Or(child.text, AttrText(target)) \o <<"](", target, ")">>
                 [] child.tag \in {"bcp14", "strong"} -> <<"**">> \o child.text \o <<"**">>
                 [] child.tag = "em" -> <<"*">> \o child.text \o <<"*">>
                 [] child.tag = "tt" -> <<Backtick>> \o child.text \o <<Backtick>>
                 [] child.tag = "contact" ->
                      Or(AttrText(Get(child, "fullname", "")), child.text)
                 [] OTHER -> _get_element_text(child)
         IN own \o child.tail \o ChildrenText(Tail(kids))

_get_element_text(elem) ==
    IF elem = None THEN <<>> ELSE Strip(elem.text \o ChildrenText(elem.kids))

----------------------------------------------------------------------------
(* XmlToMdConverter: the renderers.  Each is the sequence of lines its     *)
(* method appends to self.markdown_lines.                                  *)

EmptyLine == <<>>
Fence == Backtick \o Backtick \o Backtick
\* f'<a name="{anchor}"></a>'
AnchorTag(anchor) == <<"<a name=\"", anchor, "\"></a>">>
\* The lines of a text that are not blank, each behind a prefix.
PrefixedLines(prefix, text) ==
    LET ls == SelectSeq(Split(text, "\n"), LAMBDA l : Strip(l) # <<>>)
    IN [i \in 1..Len(ls) |-> prefix \o ls[i]]
\* f"  {line}" if line else "", over a scratch buffer.
Indented(lines) ==
    [i \in 1..Len(lines) |-> IF lines[i] # <<>> THEN <<"  ">> \o lines[i] ELSE <<>>]
\* A paragraph with its indent attribute: int() of a malformed value raises.
Paragraph(t_elem) ==
    LET text == _get_element_text(t_elem)
        indent == Get(t_elem, "indent", "0")
    IN IF text = <<>> THEN <<>>
       ELSE IF indent = "0" THEN <<text, EmptyLine>>
       ELSE IF IntRaises(indent) THEN <<Traceback>>
       ELSE <<Rep(<<"  ">>, PyInt(indent)) \o text, EmptyLine>>

RECURSIVE _process_list(_, _, _)
RECURSIVE ListItems(_, _, _, _)
RECURSIVE NestedLists(_, _)
\* The nested ul and ol children of one li.
NestedLists(kids, indent_level) ==
    IF kids = <<>> THEN <<>>
    ELSE (IF Head(kids).tag \in {"ul", "ol"}
          THEN _process_list(Head(kids), Head(kids).tag = "ol", indent_level + 1)
          ELSE <<>>)
         \o NestedLists(Tail(kids), indent_level)
\* The loop of _process_list from the item that takes number counter.
ListItems(items, ordered, indent_level, counter) ==
    IF items = <<>> THEN <<>>
    ELSE LET li == Head(items)
             text == _get_element_text(li)
             prefix == IF ordered THEN ToString(counter) \o "." ELSE "-"
         IN (IF text # <<>>
             THEN <<Rep(<<"  ">>, indent_level) \o <<prefix, " ">> \o text>>
             ELSE <<>>)
            \o NestedLists(li.kids, indent_level)
            \o ListItems(Tail(items), ordered, indent_level,
                         IF ordered THEN counter + 1 ELSE counter)

\* A list whose numbers go on from those of the list around it.
ContinuedList(list_elem, ordered, indent_level) ==
    ListItems(FindAll(list_elem, "li"), ordered, indent_level, 1 + indent_level)
    \o (IF indent_level = 0 THEN <<EmptyLine>> ELSE <<>>)

_process_list(list_elem, ordered, indent_level) ==
    ListItems(FindAll(list_elem, "li"), ordered, indent_level, 1)
    \o (IF indent_level = 0 THEN <<EmptyLine>> ELSE <<>>)

\* The lines of an artwork or sourcecode body: right-trimmed, left kept.
CodeLines(content) ==
    IF content = <<>> THEN <<>>
    ELSE LET ls == Split(content, "\n") IN [i \in 1..Len(ls) |-> RStrip(ls[i])]

_process_artwork(artwork_elem, in_figure) ==
    <<<<Fence>>>> \o CodeLines(artwork_elem.text) \o <<<<Fence>>>>
    \o (IF in_figure THEN <<>> ELSE <<EmptyLine>>)

_process_sourcecode(sourcecode_elem, in_figure) ==
    LET lang == Get(sourcecode_elem, "type", "")
    IN <<IF lang # "" THEN <<Fence, lang>> ELSE <<Fence>>>>
       \o CodeLines(sourcecode_elem.text) \o <<<<Fence>>>>
       \o (IF in_figure THEN <<>> ELSE <<EmptyLine>>)

\* pn.replace("figure-", "") for the pn values that start with "figure-".
FigureNumber == [pn \in {"figure-1", "figure-2"} |-> IF pn = "figure-1" THEN "1" ELSE "2"]

RECURSIVE FigureBodies(_)
FigureBodies(kids) ==
    IF kids = <<>> THEN <<>>
    ELSE (CASE Head(kids).tag = "artwork" -> _process_artwork(Head(kids), TRUE)
            [] Head(kids).tag = "sourcecode" -> _process_sourcecode(Head(kids), TRUE)
            [] OTHER -> <<>>)
         \o FigureBodies(Tail(kids))

_process_figure(figure_elem) ==
    LET pn == Get(figure_elem, "pn", "")
        name_elem == Find(figure_elem, "name")
    IN (IF name_elem # None /\ name_elem.text # <<>>
        THEN <<IF pn \in DOMAIN FigureNumber
               THEN <<"**Figure ", FigureNumber[pn], ": ">> \o name_elem.text \o <<"**">>
               ELSE <<"**Figure: ">> \o name_elem.text \o <<"**">>,
               EmptyLine>>
        ELSE <<>>)
       \o FigureBodies(figure_elem.kids)

\* A scratch buffer that stays the line buffer after the nested rendering.
ScratchKept(saved_lines, scratch) == Indented(scratch)
\* saved_lines = self.markdown_lines[:] before the nested rendering into the
\* emptied buffer; then saved_lines.append(f"  {line}" if line else "") for
\* every line of it and self.markdown_lines = saved_lines.
Splice(saved_lines, scratch) == saved_lines \o Indented(scratch)

RECURSIVE _process_definition_list(_)
RECURSIVE DdChildren(_, _)
RECURSIVE DlChildren(_, _)
\* The loop over the children of a dd that has nested structural content:
\* the line buffer after it, lines being the buffer before it.
DdChildren(lines, kids) ==
    IF kids = <<>> THEN lines
    ELSE LET subchild == Head(kids)
             text == _get_element_text(subchild)
         IN DdChildren(
              CASE subchild.tag = "t" ->
                     IF text # <<>> THEN lines \o PrefixedLines(<<"  ">>, text) \o <<EmptyLine>>
                     ELSE lines
                [] subchild.tag = "figure" -> Splice(lines, _process_figure(subchild))
                [] subchild.tag \in {"ul", "ol"} ->
                     lines \o _process_list(subchild, subchild.tag = "ol", 1)
                [] subchild.tag = "dl" -> Splice(lines, _process_definition_list(subchild))
                [] OTHER -> lines,
              Tail(kids))
\* The loop over the children of a dl, from the buffer before to the buffer after.
DlChildren(lines, kids) ==
    IF kids = <<>> THEN lines
    ELSE LET child == Head(kids)
             text == _get_element_text(child)
             has_nested_elements ==
                 \E i \in 1..Len(child.kids) :
                     child.kids[i].tag \in {"t", "figure", "ul", "ol", "dl", "artwork", "sourcecode"}
         IN DlChildren(
              CASE child.tag = "dt" ->
                     IF text # <<>> THEN Append(lines, <<"**">> \o text \o <<"**">>) ELSE lines
                [] child.tag = "dd" ->
                     IF has_nested_elements THEN DdChildren(lines, child.kids)
                     ELSE IF text # <<>>
                     THEN lines \o PrefixedLines(<<"  ">>, text) \o <<EmptyLine>>
                     ELSE lines
                [] OTHER -> lines,
              Tail(kids))

\* The lines a call appends: the buffer is counted from the call on, which
\* is the whole buffer of a nested call.
_process_definition_list(dl_elem) == DlChildren(<<>>, dl_elem.kids) \o <<EmptyLine>>

\* The cells of one row: _get_element_text(cell) or "".
CellTexts(tr, tag) ==
    LET cells == FindAll(tr, tag) IN [i \in 1..Len(cells) |-> _get_element_text(cells[i])]
\* "| " + " | ".join(cells) + " |"
TableLine(cells) == <<"| ">> \o JoinWith(<<" | ">>, cells) \o <<" |">>
\* A row left as the document has it.
UnpaddedRow(row, headers) == row
\* while len(row) < len(headers): row.append("")
PadRow(row, headers) == row \o [i \in 1..(Len(headers) - Len(row)) |-> <<>>]

_process_table(table_elem) ==
    LET name_elem == Find(table_elem, "name")
        thead == Find(table_elem, "thead")
        tr == Find(thead, "tr")
        headers == IF tr # None THEN CellTexts(tr, "th") ELSE <<>>
        tbody == Find(table_elem, "tbody")
        trs == IF tbody # None THEN FindAll(tbody, "tr") ELSE <<>>
        all_rows == [i \in 1..Len(trs) |-> CellTexts(trs[i], "td")]
        rows == SelectSeq(all_rows, LAMBDA row : row # <<>>)
    IN (IF name_elem # None /\ name_elem.text # <<>>
        THEN <<<<"**Table: ">> \o name_elem.text \o <<"**">>, EmptyLine>>
        ELSE <<>>)
       \o (IF headers # <<>>
           THEN <<TableLine(headers), TableLine([i \in 1..Len(headers) |-> <<"---">>])>>
           ELSE <<>>)
       \o [i \in 1..Len(rows) |-> TableLine(PadRow(rows[i], headers))]
       \o <<EmptyLine>>

RECURSIVE NoteParagraphs(_)
NoteParagraphs(ts) ==
    IF ts = <<>> THEN <<>>
    ELSE LET text == _get_element_text(Head(ts))
         IN (IF text # <<>> THEN PrefixedLines(<<"> ">>, text) \o <<<<">">>>> ELSE <<>>)
            \o NoteParagraphs(Tail(ts))

_process_note(note_elem) ==
    LET name_elem == Find(note_elem, "name")
    IN (IF name_elem # None /\ name_elem.text # <<>>
        THEN <<<<"> **">> \o name_elem.text \o <<"**">>, <<">">>>>
        ELSE <<>>)
       \o NoteParagraphs(FindAll(note_elem, "t"))
       \o <<EmptyLine>>

\* f"{header_prefix} {name_elem.text}"
HeadingLine(depth, text) == Rep(<<"#">>, depth) \o <<" ">> \o text

\* The heading of a section: the anchor tag, the heading line, a blank line.
SectionHeading(section, depth) ==
    LET name_elem == Find(section, "name")
        anchor == Get(section, "anchor", "")
    IN IF name_elem # None /\ name_elem.text # <<>>
       THEN (IF anchor # "" THEN <<AnchorTag(anchor)>> ELSE <<>>)
            \o <<HeadingLine(depth, name_elem.text), EmptyLine>>
       ELSE <<>>

\* depth = min(depth, 6)
\* A heading level that follows the nesting depth without limit.
UnclampedDepth(depth) == depth
ClampDepth(depth) == Min(depth, 6)

RECURSIVE _process_section(_, _)
RECURSIVE SectionChildren(_, _)
\* The dispatch of _process_section over the children, in document order.
SectionChildren(kids, depth) ==
    IF kids = <<>> THEN <<>>
    ELSE LET child == Head(kids)
         IN (CASE child.tag = "t" -> Paragraph(child)
               [] child.tag = "ul" -> _process_list(child, FALSE, 0)
               [] child.tag = "ol" -> _process_list(child, TRUE, 0)
               [] child.tag = "dl" -> _process_definition_list(child)
               [] child.tag = "figure" -> _process_figure(child)
               [] child.tag = "artwork" -> _process_artwork(child, FALSE)
               [] child.tag = "sourcecode" -> _process_sourcecode(child, FALSE)
               [] child.tag = "table" -> _process_table(child)
               [] child.tag = "note" -> _process_note(child)
               [] child.tag = "section" -> _process_section(child, depth + 1)
               [] OTHER -> <<>>)
            \o SectionChildren(Tail(kids), depth)

_process_section(section, depth0) ==
    LET depth == ClampDepth(depth0)
    IN SectionHeading(section, depth) \o SectionChildren(section.kids, depth)

----------------------------------------------------------------------------
(* XmlToMdConverter: front matter.                                         *)

\* One metadata field of the root element, emitted only when present.
MetadataField(rt, label, attr) ==
    IF Get(rt, attr, "") # "" THEN <<<<label, Get(rt, attr, "")>>>> ELSE <<>>

RECURSIVE FrontAuthors(_)
FrontAuthors(authors) ==
    IF authors = <<>> THEN <<>>
    ELSE LET author == Head(authors)
             fullname == Get(author, "fullname", "")
             author_line == Or(AttrText(fullname),
                               Strip(AttrText(Get(author, "initials", "")) \o <<" ">>
                                     \o AttrText(Get(author, "surname", ""))))
             org == Find(author, "organization")
             email == Find(Find(author, "address"), "email")
         IN <<<<"- ">> \o author_line
               \o (IF Get(author, "role", "") = "editor" THEN <<" *(Editor)*">> ELSE <<>>)>>
            \o (IF org # None /\ org.text # <<>> THEN <<<<"  - ">> \o org.text>> ELSE <<>>)
            \o (IF email # None /\ email.text # <<>>
                THEN <<<<"  - Email: ">> \o email.text>> ELSE <<>>)
            \o FrontAuthors(Tail(authors))

\* A labelled one-line field followed by a blank line, when the element has text.
TextField(label, elem) ==
    IF elem # None /\ elem.text # <<>> THEN <<<<label>> \o elem.text, EmptyLine>> ELSE <<>>

RECURSIVE Paragraphs(_)
\* Paragraphs with their indent attribute (the abstract).
Paragraphs(ts) == IF ts = <<>> THEN <<>> ELSE Paragraph(Head(ts)) \o Paragraphs(Tail(ts))

RECURSIVE PlainParagraphs(_)
\* Paragraphs whose indent attribute is not read.
PlainParagraphs(ts) ==
    IF ts = <<>> THEN <<>>
    ELSE (IF _get_element_text(Head(ts)) # <<>>
          THEN <<_get_element_text(Head(ts)), EmptyLine>> ELSE <<>>)
         \o PlainParagraphs(Tail(ts))

_process_boilerplate_section(section) ==
    LET name_elem == Find(section, "name")
    IN (IF name_elem # None /\ name_elem.text # <<>>
        THEN <<<<"## ">> \o name_elem.text, EmptyLine>> ELSE <<>>)
       \o PlainParagraphs(FindAll(section, "t"))

RECURSIVE BoilerplateSections(_)
BoilerplateSections(ss) ==
    IF ss = <<>> THEN <<>>
    ELSE _process_boilerplate_section(Head(ss)) \o BoilerplateSections(Tail(ss))

RECURSIVE LinkLines(_)
LinkLines(links) ==
    IF links = <<>> THEN <<>>
    ELSE (IF Get(Head(links), "href", "") # ""
          THEN <<<<"- [", IF Get(Head(links), "rel", "") # ""
                          THEN Get(Head(links), "rel", "") ELSE "Link",
                   "](", Get(Head(links), "href", ""), ")">>>>
          ELSE <<>>)
         \o LinkLines(Tail(links))

_process_front(rt) ==
    LET front == Find(rt, "front")
        title_elem == Find(front, "title")
        abbrev == Get(title_elem, "abbrev", "")
        series_info == Find(front, "seriesInfo")
        metadata_fields ==
            MetadataField(rt, "**Category:** ", "category")
            \o MetadataField(rt, "**Obsoletes:** ", "obsoletes")
            \o MetadataField(rt, "**Updates:** ", "updates")
            \o MetadataField(rt, "**Submission Type:** ", "submissionType")
            \o MetadataField(rt, "**Consensus:** ", "consensus")
            \o MetadataField(rt, "**IPR:** ", "ipr")
            \o MetadataField(rt, "**Doc Name:** ", "docName")
        authors == FindAll(front, "author")
        date_elem == Find(front, "date")
        date_str == (IF Get(date_elem, "day", "") # ""
                     THEN <<Get(date_elem, "day", ""), " ">> ELSE <<>>)
                    \o (IF Get(date_elem, "month", "") # ""
                        THEN <<Get(date_elem, "month", ""), " ">> ELSE <<>>)
                    \o AttrText(Get(date_elem, "year", ""))
        kws == FindAll(front, "keyword")
        keyword_list == SelectSeq([i \in 1..Len(kws) |-> kws[i].text], LAMBDA t : t # <<>>)
        links == FindAll(rt, "link")
        abstract == Find(front, "abstract")
        boilerplate == Find(front, "boilerplate")
    IN IF front = None THEN <<>>
       ELSE (IF title_elem # None
             THEN <<<<"# ">> \o title_elem.text>>
                  \o (IF abbrev # "" /\ <<abbrev>> # title_elem.text
                      THEN <<<<"*(", abbrev, ")*">>>> ELSE <<>>)
                  \o <<EmptyLine>>
             ELSE <<>>)
            \o (IF series_info # None /\ Get(series_info, "name", "") # ""
                   /\ Get(series_info, "value", "") # ""
                THEN <<<<"**", Get(series_info, "name", ""), " ",
                         Get(series_info, "value", ""), "**">>>>
                     \o (IF Get(series_info, "stream", "") # ""
                         THEN <<<<"*Stream: ", Get(series_info, "stream", ""), "*">>>>
                         ELSE <<>>)
                     \o <<EmptyLine>>
                ELSE <<>>)
            \o (IF metadata_fields # <<>> THEN metadata_fields \o <<EmptyLine>> ELSE <<>>)
            \o (IF authors # <<>>
                THEN <<<<"## Authors">>, EmptyLine>> \o FrontAuthors(authors) \o <<EmptyLine>>
                ELSE <<>>)
            \o (IF date_elem # None /\ date_str # <<>>
                THEN <<<<"**Date:** ">> \o Strip(date_str), EmptyLine>> ELSE <<>>)
            \o TextField("**Area:** ", Find(front, "area"))
            \o TextField("**Workgroup:** ", Find(front, "workgroup"))
            \o (IF keyword_list # <<>>
                THEN <<<<"**Keywords:** ">> \o JoinWith(<<", ">>, keyword_list), EmptyLine>>
                ELSE <<>>)
            \o (IF links # <<>>
                THEN <<<<"## Related Documents">>, EmptyLine>> \o LinkLines(links)
                     \o <<EmptyLine>>
                ELSE <<>>)
            \o (IF abstract # None
                THEN <<<<"## Abstract">>, EmptyLine>> \o Paragraphs(FindAll(abstract, "t"))
                ELSE <<>>)
            \o (IF boilerplate # None
                THEN BoilerplateSections(FindAll(boilerplate, "section")) ELSE <<>>)

----------------------------------------------------------------------------
(* XmlToMdConverter: the anchor map and the table of contents.             *)

NoMap == [k \in {} |-> ""]
\* A lookup that gives nothing for a missing key.
MapGetOrNothing(m, key, default) == IF key \in DOMAIN m THEN m[key] ELSE ""
\* dict.get(key, default)
MapGet(m, key, default) == IF key \in DOMAIN m THEN m[key] ELSE default
\* m[key] = value
MapPut(m, key, value) == [k \in DOMAIN m \cup {key} |-> IF k = key THEN value ELSE m[k]]

RECURSIVE _collect_section_anchors(_, _)
RECURSIVE CollectEach(_, _)
\* for section in sections: self._collect_section_anchors(section)
CollectEach(ss, m) ==
    IF ss = <<>> THEN m ELSE CollectEach(Tail(ss), _collect_section_anchors(Head(ss), m))

\* A scan that records the section and does not descend into it.
TopLevelAnchorsOnly(section, m) ==
    IF Get(section, "pn", "") # "" /\ Get(section, "anchor", "") # ""
    THEN MapPut(m, Get(section, "pn", ""), Get(section, "anchor", "")) ELSE m

_collect_section_anchors(section, m) ==
    LET pn == Get(section, "pn", "")
        anchor == Get(section, "anchor", "")
    IN CollectEach(FindAll(section, "section"),
                   IF pn # "" /\ anchor # "" THEN MapPut(m, pn, anchor) ELSE m)

_build_section_anchor_mapping(rt, m) ==
    LET middle == Find(rt, "middle")
        back == Find(rt, "back")
        m1 == IF middle # None THEN CollectEach(FindAll(middle, "section"), m) ELSE m
    IN IF back # None THEN CollectEach(FindAll(back, "section"), m1) ELSE m1

\* f"{indent}- [{section_num}. {title}](#{anchor})", section_num possibly absent.
TocLine(depth, section_num, title, link) ==
    Rep(<<"  ">>, depth)
    \o (IF section_num # "" THEN <<"- [", section_num, ". ">> ELSE <<"- [">>)
    \o title \o <<"](#", link, ")">>

RECURSIVE _process_toc_list(_, _, _)
RECURSIVE TocItems(_, _, _)
TocItems(lis, m, depth) ==
    IF lis = <<>> THEN <<>>
    ELSE LET li == Head(lis)
             t_elem == Find(li, "t")
             xrefs == FindAll(t_elem, "xref")
             num_xref == xrefs[1]
             title_xref == IF Len(xrefs) >= 2 THEN xrefs[2] ELSE xrefs[1]
             target == Get(num_xref, "target", "")
             section_num == Get(num_xref, "derivedContent", "")
             title == Or(AttrText(Get(title_xref, "derivedContent", "")), title_xref.text)
             nested_ul == Find(li, "ul")
         IN (IF t_elem # None /\ Len(xrefs) >= 2 /\ title # <<>>
             THEN <<TocLine(depth, section_num, title, MapGet(m, target, target))>>
             ELSE IF t_elem # None /\ Len(xrefs) = 1 /\ title # <<>>
             THEN <<TocLine(depth, "", title, MapGet(m, target, target))>>
             ELSE <<>>)
            \o (IF nested_ul # None THEN _process_toc_list(nested_ul, m, depth + 1) ELSE <<>>)
            \o TocItems(Tail(lis), m, depth)

_process_toc_list(ul_elem, m, depth) == TocItems(FindAll(ul_elem, "li"), m, depth)

RECURSIVE CollectedTocLines(_)
\* The fallback of _generate_toc over self.toc_entries.
CollectedTocLines(entries) ==
    IF entries = <<>> THEN <<>>
    ELSE LET entry == Head(entries)
         IN <<Rep(<<"  ">>, entry.depth - 1)
              \o (IF entry.number # "" THEN <<"- [", entry.number, ". ">> ELSE <<"- [">>)
              \o entry.title \o <<"](#", entry.anchor, ")">>>>
            \o CollectedTocLines(Tail(entries))

_generate_toc(rt, m, entries) ==
    LET ul == Find(Find(Find(Find(rt, "front"), "toc"), "section"), "ul")
    IN <<<<"## Table of Contents">>, EmptyLine>>
       \o (IF ul # None THEN _process_toc_list(ul, m, 0) \o <<EmptyLine>>
           ELSE IF entries # <<>> THEN CollectedTocLines(entries) \o <<EmptyLine>>
           ELSE <<>>)

----------------------------------------------------------------------------
(* XmlToMdConverter: middle and back matter.                               *)

RECURSIVE TopSections(_)
\* for section in sections: self._process_section(section, depth=1)
TopSections(ss) ==
    IF ss = <<>> THEN <<>> ELSE _process_section(Head(ss), 1) \o TopSections(Tail(ss))

_process_middle(rt) ==
    LET middle == Find(rt, "middle")
    IN IF middle = None THEN <<>> ELSE TopSections(FindAll(middle, "section"))

\* The postal address, organization and email lines shared by contacts and authors.
AddressLines(elem) ==
    LET org == Find(elem, "organization")
        address == Find(elem, "address")
        postal == Find(address, "postal")
        fields == <<Find(postal, "street"), Find(postal, "city"), Find(postal, "region"),
                    Find(postal, "code"), Find(postal, "country")>>
        present == SelectSeq(fields, LAMBDA f : f # None /\ f.text # <<>>)
        address_parts == [i \in 1..Len(present) |-> present[i].text]
        email == Find(address, "email")
    IN (IF org # None /\ org.text # <<>> THEN <<<<"- Organization: ">> \o org.text>> ELSE <<>>)
       \o (IF address_parts # <<>>
           THEN <<<<"- Address: ">> \o JoinWith(<<", ">>, address_parts)>> ELSE <<>>)
       \o (IF email # None /\ email.text # <<>> THEN <<<<"- Email: ">> \o email.text>> ELSE <<>>)

_process_contact(contact_elem) ==
    LET fullname == Get(contact_elem, "fullname", "")
    IN (IF fullname # "" THEN <<<<"**", fullname, "**">>, EmptyLine>> ELSE <<>>)
       \o AddressLines(contact_elem) \o <<EmptyLine>>

_process_author_address(author_elem) ==
    LET fullname == Get(author_elem, "fullname", "")
        initials == Get(author_elem, "initials", "")
        surname == Get(author_elem, "surname", "")
    IN (IF fullname # "" THEN <<<<"**", fullname, "**">>>>
        ELSE IF initials # "" /\ surname # "" THEN <<<<"**", initials, " ", surname, "**">>>>
        ELSE IF surname # "" THEN <<<<"**", surname, "**">>>>
        ELSE <<>>)
       \o <<EmptyLine>> \o AddressLines(author_elem) \o <<EmptyLine>>

RECURSIVE UnnumberedChildren(_)
UnnumberedChildren(kids) ==
    IF kids = <<>> THEN <<>>
    ELSE (CASE Head(kids).tag = "t" -> PlainParagraphs(<<Head(kids)>>)
            [] Head(kids).tag = "contact" -> _process_contact(Head(kids))
            [] Head(kids).tag = "author" -> _process_author_address(Head(kids))
            [] OTHER -> <<>>)
         \o UnnumberedChildren(Tail(kids))

_process_unnumbered_section(section) ==
    SectionHeading(section, 1) \o UnnumberedChildren(section.kids)

RECURSIVE ReferenceAuthors(_)
ReferenceAuthors(authors) ==
    IF authors = <<>> THEN <<>>
    ELSE LET initials == Get(Head(authors), "initials", "")
             surname == Get(Head(authors), "surname", "")
             fullname == Get(Head(authors), "fullname", "")
         IN (IF surname # "" THEN (IF initials # "" THEN <<<<initials, " ", surname>>>>
                                   ELSE <<<<surname>>>>)
             ELSE IF fullname # "" THEN <<<<fullname>>>>
             ELSE <<>>)
            \o ReferenceAuthors(Tail(authors))

_process_reference(reference, display_refs) ==
    LET anchor == Get(reference, "anchor", "")
        target == Get(reference, "target", "")
        ref_id == MapGet(display_refs, anchor, anchor)
        front == Find(reference, "front")
        author_names == ReferenceAuthors(FindAll(front, "author"))
        title_elem == Find(front, "title")
        series == FindAll(reference, "seriesInfo")
        named == SelectSeq(series, LAMBDA e : Get(e, "name", "") # "" /\ Get(e, "value", "") # "")
        series_parts == [i \in 1..Len(named) |->
                            <<Get(named[i], "name", ""), " ", Get(named[i], "value", "")>>]
        date_elem == Find(front, "date")
        date_str == (IF Get(date_elem, "month", "") # ""
                     THEN <<Get(date_elem, "month", ""), " ">> ELSE <<>>)
                    \o AttrText(Get(date_elem, "year", ""))
        refcontent == Find(reference, "refcontent")
        ref_parts ==
            (IF ref_id # "" THEN <<AnchorTag(anchor), <<"**[", ref_id, "]**">>>> ELSE <<>>)
            \o (IF author_names # <<>>
                THEN <<JoinWith(<<", ">>, author_names) \o <<",">>>> ELSE <<>>)
            \o (IF title_elem # None /\ title_elem.text # <<>>
                THEN <<<<"\"">> \o title_elem.text \o <<"\",">>>> ELSE <<>>)
            \o (IF series_parts # <<>>
                THEN <<JoinWith(<<", ">>, series_parts) \o <<",">>>> ELSE <<>>)
            \o (IF date_elem # None /\ date_str # <<>> THEN <<date_str \o <<".">>>> ELSE <<>>)
            \o (IF refcontent # None /\ refcontent.text # <<>> THEN <<refcontent.text>> ELSE <<>>)
            \o (IF target # "" THEN <<<<"<", target, ">">>>> ELSE <<>>)
    IN IF front = None THEN <<>> ELSE <<JoinWith(<<" ">>, ref_parts), EmptyLine>>

\* A mapping that takes no display reference.
NoDisplayRefs(drs, m) == m
RECURSIVE DisplayRefs(_, _)
\* The display reference mapping of _process_back.
DisplayRefs(drs, m) ==
    IF drs = <<>> THEN m
    ELSE LET target == Get(Head(drs), "target", "")
             to == Get(Head(drs), "to", "")
         IN DisplayRefs(Tail(drs), IF target # "" /\ to # "" THEN MapPut(m, target, to) ELSE m)

RECURSIVE ReferenceEntries(_, _)
ReferenceEntries(refs, display_refs) ==
    IF refs = <<>> THEN <<>>
    ELSE _process_reference(Head(refs), display_refs)
         \o ReferenceEntries(Tail(refs), display_refs)

RECURSIVE ReferenceGroups(_, _)
\* The loop over the reference groups nested in the first references element.
ReferenceGroups(groups, display_refs) ==
    IF groups = <<>> THEN <<>>
    ELSE LET ref_section == Head(groups)
             name_elem == Find(ref_section, "name")
             anchor == Get(ref_section, "anchor", "")
         IN (IF name_elem # None /\ name_elem.text # <<>>
             THEN (IF anchor # "" THEN <<AnchorTag(anchor)>> ELSE <<>>)
                  \o <<<<"## ">> \o name_elem.text, EmptyLine>>
             ELSE <<>>)
            \o ReferenceEntries(FindAll(ref_section, "reference"), display_refs)
            \o ReferenceGroups(Tail(groups), display_refs)

\* The anchors that mark a back section as unnumbered.
SpecialAnchors ==
    {"Acknowledgements", "acknowledgements", "Contributors", "contributors",
     "authors-addresses"}

RECURSIVE BackSections(_)
BackSections(ss) ==
    IF ss = <<>> THEN <<>>
    ELSE (IF Get(Head(ss), "numbered", "true") = "false"
             \/ Get(Head(ss), "anchor", "") \in SpecialAnchors
          THEN _process_unnumbered_section(Head(ss))
          ELSE _process_section(Head(ss), 1))
         \o BackSections(Tail(ss))

_process_back(rt) ==
    LET back == Find(rt, "back")
        display_refs == DisplayRefs(FindAll(back, "displayreference"), NoMap)
        references_parent == Find(back, "references")
        parent_name == Find(references_parent, "name")
    IN IF back = None THEN <<>>
       ELSE (IF references_parent # None
             THEN <<AnchorTag(Get(references_parent, "anchor", "references")),
                    IF parent_name # None /\ parent_name.text # <<>>
                    THEN <<"# ">> \o parent_name.text ELSE <<"# References">>,
                    EmptyLine>>
                  \o ReferenceGroups(FindAll(references_parent, "references"), display_refs)
             ELSE <<>>)
            \o BackSections(FindAll(back, "section"))

----------------------------------------------------------------------------
(* HtmlToMdConverter: the character classes of the patterns, over atoms.   *)

\* [A-Za-z]+ : the atoms made of letters only.
Words ==
    {"Smith", "Narten", "Alvestrand", "Farrel", "et", "al", "Author", "Name",
     "Standards", "Track", "Informational", "Best", "Current", "Practice",
     "Experimental", "Historic", "Category", "Page", "RFC", "rfc", "Title", "Text",
     "more", "text", "Introduction", "March", "May"}
\* \d+ : the atoms made of digits only, and those of exactly four digits.
Digits == {"1", "2", "7752", "2016"}
FourDigits == {"7752", "2016"}
Months ==
    {"January", "February", "March", "April", "May", "June", "July", "August",
     "September", "October", "November", "December"}
\* (Standards Track|Informational|Best Current Practice|Experimental|Historic)
Categories ==
    {<<"Standards", " ", "Track">>, <<"Informational">>,
     <<"Best", " ", "Current", " ", "Practice">>, <<"Experimental">>, <<"Historic">>}
\* [A-Za-z,\s\.]
AuthorChars == Words \cup Whitespace \cup {",", "."}
\* [.,:;!?)\]]
TerminalPunctuation == {".", ",", ":", ";", "!", "?", ")", "]"}

AllIn(t, S) == \A i \in 1..Len(t) : t[i] \in S
RECURSIVE Chars(_)
\* The number of characters of a run of blank atoms.
Chars(t) == IF t = <<>> THEN 0 ELSE WsLen(Head(t)) + Chars(Tail(t))
\* t[i..] starts with the atoms of p.
StartsAt(t, i, p) == i + Len(p) - 1 <= Len(t) /\ SubSeq(t, i, i + Len(p) - 1) = p

\* \[Page \d+\]$ after \s+ : the tail of a running header.
IsPageMarker(t) ==
    /\ Len(t) >= 6
    /\ AllIn(SubSeq(t, 1, Len(t) - 5), Whitespace)
    /\ SubSeq(t, Len(t) - 4, Len(t) - 2) = <<"[", "Page", " ">>
    /\ t[Len(t) - 1] \in Digits
    /\ t[Len(t)] = "]"

\* ^[A-Za-z,\s\.]+\s+(Standards Track|...|Historic)\s+\[Page \d+\]$
page_header_pattern(line) ==
    \E i \in 2..Len(line) : \E cat \in Categories :
        /\ AllIn(SubSeq(line, 1, i - 1), AuthorChars)
        /\ line[i - 1] \in Whitespace
        /\ (i - 1 >= 2 \/ WsLen(line[1]) >= 2)
        /\ StartsAt(line, i, cat)
        /\ IsPageMarker(SubSeq(line, i + Len(cat), Len(line)))

\* ^RFC \d+\s+.*\s+(January|...|December)\s+\d{4}$
page_footer_pattern(line) ==
    /\ Len(line) >= 7
    /\ line[1] = "RFC" /\ line[2] = " " /\ line[3] \in Digits /\ line[4] \in Whitespace
    /\ \E j \in 5..Len(line) :
        /\ line[j] \in Months
        /\ line[j - 1] \in Whitespace
        /\ (j - 1 > 4 \/ WsLen(line[4]) >= 2)
        /\ j + 2 <= Len(line)
        /\ AllIn(SubSeq(line, j + 1, Len(line) - 1), Whitespace)
        /\ line[Len(line)] \in FourDigits

\* re.search(r"[.,:;!?)\]]$", line.strip())
EndsSentence(line) == Strip(line) # <<>> /\ Last(Strip(line)) \in TerminalPunctuation
\* re.match(r"^\d+\.?\s", next_line)
StartsNumbered(line) ==
    /\ Len(line) >= 2 /\ line[1] \in Digits
    /\ \/ line[2] \in Whitespace
       \/ (line[2] = "." /\ Len(line) >= 3 /\ line[3] \in Whitespace)

----------------------------------------------------------------------------
(* HtmlToMdConverter._remove_page_breaks                                   *)

RECURSIVE CleanLines(_, _, _)
\* The first loop: lines from index i on, cleaned_lines so far.
CleanLines(lines, i, cleaned_lines) ==
    IF i > Len(lines) THEN cleaned_lines
    ELSE LET line == lines[i]
             prev_line == IF cleaned_lines # <<>> THEN Last(cleaned_lines) ELSE <<>>
             next_line == Strip(lines[i + 1])
         IN IF page_header_pattern(Strip(line)) THEN CleanLines(lines, i + 1, cleaned_lines)
            ELSE IF page_footer_pattern(Strip(line)) THEN CleanLines(lines, i + 1, cleaned_lines)
            ELSE IF Strip(line) = <<>>
            THEN CleanLines(lines, i + 1,
                     IF i > 1 /\ i < Len(lines) /\ Strip(prev_line) # <<>> /\ next_line # <<>>
                        /\ ~page_header_pattern(next_line)
                     THEN Append(cleaned_lines, <<>>) ELSE cleaned_lines)
            ELSE CleanLines(lines, i + 1, Append(cleaned_lines, line))

RECURSIVE MergeLines(_, _)
\* The second loop: cleaned_lines from index i on.
MergeLines(cleaned_lines, i) ==
    IF i > Len(cleaned_lines) THEN <<>>
    ELSE LET line == cleaned_lines[i]
             next_line == Strip(cleaned_lines[i + 1])
         IN IF /\ Strip(line) # <<>> /\ i + 1 <= Len(cleaned_lines)
               /\ ~EndsSentence(line)
               /\ next_line # <<>>
               /\ Head(next_line) \notin {"#", "##"}
               /\ ~StartsNumbered(next_line)
            THEN <<RStrip(line) \o <<" ">> \o next_line>> \o MergeLines(cleaned_lines, i + 2)
            ELSE <<line>> \o MergeLines(cleaned_lines, i + 1)

_remove_page_breaks(text) ==
    JoinWith(<<"\n">>, MergeLines(CleanLines(Split(text, "\n"), 1, <<>>), 1))

----------------------------------------------------------------------------
(* HtmlToMdConverter: metadata, sections, document.                        *)

\* The first of the places where a pattern matches, 0 when none.
FirstMatch(places) ==
    IF places = {} THEN 0 ELSE CHOOSE i \in places : \A j \in places : i <= j
\* The index after the run of blank atoms that starts at i.
RECURSIVE SkipBlanks(_, _)
SkipBlanks(t, i) == IF i <= Len(t) /\ t[i] \in Whitespace THEN SkipBlanks(t, i + 1) ELSE i
\* RFC\s+(\d+), ignoring case
RfcAt(t, i) ==
    /\ t[i] \in {"RFC", "rfc"}
    /\ SkipBlanks(t, i + 1) > i + 1
    /\ SkipBlanks(t, i + 1) <= Len(t) /\ t[SkipBlanks(t, i + 1)] \in Digits
CategoryAt(t, i) == \E cat \in Categories : StartsAt(t, i, cat)
\* (January|...|December)\s+(\d{4})
DateAt(t, i) ==
    /\ t[i] \in Months
    /\ SkipBlanks(t, i + 1) > i + 1
    /\ SkipBlanks(t, i + 1) <= Len(t) /\ t[SkipBlanks(t, i + 1)] \in FourDigits

RECURSIVE MetaTags(_, _)
MetaTags(metas, m) ==
    IF metas = <<>> THEN m
    ELSE MetaTags(Tail(metas),
                  IF Head(metas).name # "" /\ Head(metas).content # ""
                  THEN MapPut(m, Head(metas).name, <<Head(metas).content>>) ELSE m)

_extract_metadata(sp, m) ==
    LET m1 == MetaTags(sp.metas, m)
        m2 == IF sp.title # <<>> THEN MapPut(m1, "title", Strip(sp.title)) ELSE m1
        text == sp.pres[1]
        r == FirstMatch({i \in 1..Len(text) : RfcAt(text, i)})
        m3 == IF r > 0 THEN MapPut(m2, "rfc_number", <<text[SkipBlanks(text, r + 1)]>>) ELSE m2
        c == FirstMatch({i \in 1..Len(text) : CategoryAt(text, i)})
        m4 == IF c > 0
              THEN MapPut(m3, "category",
                          CHOOSE cat \in Categories : StartsAt(text, c, cat)) ELSE m3
        d == FirstMatch({i \in 1..Len(text) : DateAt(text, i)})
        m5 == IF d > 0
              THEN MapPut(m4, "date", <<text[d], " ", text[SkipBlanks(text, d + 1)]>>) ELSE m4
    IN IF sp.pres = <<>> THEN m2 ELSE m5

RECURSIVE HeadersFrom(_, _)
\* for level in range(1, 7): the span headers of class h<level>, in document order.
HeadersFrom(sp, level) ==
    IF level > 6 THEN <<>>
    ELSE LET hs == SelectSeq(sp.spans, LAMBDA h : h.level = level)
         IN [i \in 1..Len(hs) |->
                [level |-> level, text |-> Strip(hs[i].text), anchor |-> hs[i].anchor]]
            \o HeadersFrom(sp, level + 1)

_extract_sections(sp, secs) == secs \o HeadersFrom(sp, 1)

_process_document(sp, meta) ==
    (IF "title" \in DOMAIN meta THEN <<<<"# ">> \o meta["title"], EmptyLine>> ELSE <<>>)
    \o (IF "rfc_number" \in DOMAIN meta
        THEN <<<<"**RFC ">> \o meta["rfc_number"] \o <<"**">>
               \o (IF "category" \in DOMAIN meta THEN <<" - ">> \o meta["category"] ELSE <<>>),
               EmptyLine>>
        ELSE <<>>)
    \o (IF "date" \in DOMAIN meta THEN <<<<"**Date:** ">> \o meta["date"], EmptyLine>> ELSE <<>>)
    \o (IF sp.pres # <<>> THEN <<_remove_page_breaks(sp.pres[1])>> ELSE <<>>)

----------------------------------------------------------------------------
(* The XML documents the converter is run on.                              *)

Attr1(n1, v1) == [a \in {n1} |-> v1]
Leaf(tag, text) == Elem(tag, NoAttrs, text, <<>>)
\* <section pn=.. anchor=..><name>..</name> kids </section>; an empty pn,
\* anchor or name is one the document does not carry.
Section(pn, anchor, name, kids) ==
    Elem("section",
         [a \in (IF pn # "" THEN {"pn"} ELSE {}) \cup (IF anchor # "" THEN {"anchor"} ELSE {})
            |-> IF a = "pn" THEN pn ELSE anchor],
         <<>>,
         (IF name # <<>> THEN <<Leaf("name", name)>> ELSE <<>>) \o kids)
\* <t indent=..>text</t>; indent "absent" is a paragraph without the attribute.
Para(indent, text) ==
    Elem("t", IF indent = "absent" THEN NoAttrs ELSE Attr1("indent", indent), text, <<>>)
Rfc(attrs, kids) == Elem("rfc", attrs, <<>>, kids)

RECURSIVE PnAt(_)
\* The pn the RFC tool chain gives the section nested at a level: section-1.1.1
PnAt(level) == IF level <= 1 THEN "section-1" ELSE PnAt(level - 1) \o ".1"
AnchorAt(level) == "sec-" \o ToString(level)
TitleAt(level) == <<"Title", " ", ToString(level)>>

\* What one section of a chain may lack.
Variants(depth) ==
    {[kind |-> "full", at |-> 0]}
    \cup [kind : {"noname", "noanchor", "nopn"}, at : 1..depth]

RECURSIVE Chain(_, _, _)
\* A section at a level with the sections nested in it, down to depth.
Chain(level, depth, v) ==
    Section(IF v.kind = "nopn" /\ v.at = level THEN "" ELSE PnAt(level),
            IF v.kind = "noanchor" /\ v.at = level THEN "" ELSE AnchorAt(level),
            IF v.kind = "noname" /\ v.at = level THEN <<>> ELSE TitleAt(level),
            <<Para("absent", <<"Text", ".">>)>>
            \o (IF level < depth THEN <<Chain(level + 1, depth, v)>> ELSE <<>>))

\* <li><t><xref target derivedContent/>.<xref target derivedContent=""/>title</t> ul </li>
TocEntry(target, number, title, nested) ==
    Elem("li", NoAttrs, <<>>,
         <<Elem("t", NoAttrs, <<>>,
                (IF number # ""
                 THEN <<Elem("xref", [a \in {"target", "derivedContent"} |->
                                         IF a = "target" THEN target ELSE number], <<>>, <<>>)>>
                 ELSE <<>>)
                \o <<Elem("xref", Attr1("target", target), title, <<>>)>>)>>
         \o (IF nested # <<>> THEN <<Elem("ul", NoAttrs, <<>>, nested)>> ELSE <<>>))

RECURSIVE ChainToc(_, _)
\* The TOC entries of a chain: one per level, nested as the sections are.
ChainToc(level, depth) ==
    <<TocEntry(PnAt(level), ToString(level), TitleAt(level),
               IF level < depth THEN ChainToc(level + 1, depth) ELSE <<>>)>>

Toc(entries) ==
    Elem("toc", NoAttrs, <<>>, <<Elem("section", NoAttrs, <<>>,
        <<Leaf("name", <<"Table of Contents">>), Elem("ul", NoAttrs, <<>>, entries)>>)>>)

\* The back matter of the chain documents: an appendix with a subsection, an
\* unnumbered acknowledgements section.
ChainBack ==
    Elem("back", NoAttrs, <<>>,
         <<Section("section-appendix.a", "app-a", <<"Appendix">>,
                   <<Para("absent", <<"Text", ".">>),
                     Section("section-appendix.a.1", "app-a-1", <<"Details">>, <<>>)>>),
           Section("section-appendix.b", "acknowledgements", <<"Acknowledgements">>,
                   <<Para("absent", <<"Thanks", ".">>),
                     Section("section-appendix.b.1", "reviewers", <<"Reviewers">>,
                             <<Para("absent", <<"Thanks", ".">>)>>)>>)>>)

ChainFront(depth, toc) ==
    Elem("front", NoAttrs, <<>>,
         <<Elem("title", Attr1("abbrev", "Example"), <<"Example", " ", "Protocol">>, <<>>)>>
         \o (IF toc
             THEN <<Toc(ChainToc(1, depth)
                        \o <<TocEntry("section-appendix.a", "", <<"Appendix">>,
                                      <<TocEntry("section-appendix.a.1", "A.1", <<"Details">>,
                                                 <<>>)>>),
                             TocEntry("section-appendix.b", "", <<"Acknowledgements">>,
                                      <<TocEntry("section-appendix.b.1", "", <<"Reviewers">>,
                                                 <<>>)>>),
                             TocEntry("section-9", "9", <<"References">>, <<>>)>>)>>
             ELSE <<>>))

ChainDocuments ==
    {Rfc(NoAttrs, <<ChainFront(depth, toc),
                    Elem("middle", NoAttrs, <<>>, <<Chain(1, depth, v)>>),
                    ChainBack>>) :
        <<depth, v, toc>> \in
            {<<d, w, t>> \in (1..MaxDepth) \X Variants(MaxDepth) \X BOOLEAN : w.at <= d}}

Cells(tag, n) == [i \in 1..n |-> Leaf(tag, <<tag, ToString(i)>>)]
\* All sequences over S of length at most n.
RECURSIVE SeqsUpTo(_, _)
SeqsUpTo(S, n) ==
    IF n = 0 THEN {<<>>}
    ELSE SeqsUpTo(S, n - 1) \cup {Append(q, x) : q \in {r \in SeqsUpTo(S, n - 1) : Len(r) = n - 1}, x \in S}

\* A table with h header cells and one body row per entry of counts.
Table(h, counts) ==
    Elem("table", NoAttrs, <<>>,
         (IF h > 0
          THEN <<Elem("thead", NoAttrs, <<>>, <<Elem("tr", NoAttrs, <<>>, Cells("th", h))>>)>>
          ELSE <<>>)
         \o <<Elem("tbody", NoAttrs, <<>>,
                   [i \in 1..Len(counts) |-> Elem("tr", NoAttrs, <<>>, Cells("td", counts[i]))])>>)

TableDocuments ==
    {Rfc(NoAttrs, <<Elem("middle", NoAttrs, <<>>,
                         <<Section("section-1", "tables", <<"Tables">>, <<Table(h, counts)>>)>>)>>) :
        <<h, counts>> \in (0..MaxCols) \X SeqsUpTo(0..(MaxCols + 1), MaxRows)}

\* The values of an indent attribute: absent, numbers, and what is no number.
IndentValues == {"absent", "0", "2", "-1", "x", ""}

IndentDocuments ==
    {Rfc([a \in {"category", "ipr"} |-> IF a = "category" THEN "std" ELSE "trust200902"],
         <<Elem("front", NoAttrs, <<>>,
                <<Leaf("title", <<"Example">>),
                  Elem("seriesInfo", [a \in {"name", "value", "stream"} |->
                          CASE a = "name" -> "RFC" [] a = "value" -> "7752" [] OTHER -> "IETF"],
                       <<>>, <<>>),
                  Elem("author", [a \in {"initials", "surname", "role"} |->
                          CASE a = "initials" -> "J." [] a = "surname" -> "Smith"
                            [] OTHER -> "editor"], <<>>,
                       <<Leaf("organization", <<"Example", " ", "Corp">>),
                         Elem("address", NoAttrs, <<>>, <<Leaf("email", <<"j@example.com">>)>>)>>),
                  Elem("date", [a \in {"month", "year"} |-> IF a = "month" THEN "March" ELSE "2016"],
                       <<>>, <<>>),
                  Leaf("area", <<"Routing">>), Leaf("workgroup", <<"idr">>),
                  Leaf("keyword", <<"BGP">>), Leaf("keyword", <<"LS">>),
                  Elem("abstract", NoAttrs, <<>>,
                       <<Para(IF where = "abstract" THEN indent ELSE "absent",
                              <<"Abstract", " ", "text", ".">>)>>),
                  Elem("boilerplate", NoAttrs, <<>>,
                       <<Section("", "", <<"Status of This Memo">>,
                                 <<Para("absent", <<"Status", ".">>)>>)>>)>>),
           Elem("link", [a \in {"href", "rel"} |-> IF a = "href" THEN "https://example.com"
                                                     ELSE "alternate"], <<>>, <<>>),
           Elem("middle", NoAttrs, <<>>,
                <<Section("section-1", "intro", <<"Introduction">>,
                          <<Para(IF where = "section" THEN indent ELSE "absent",
                                 <<"Body", " ", "text", ".">>)>>)>>),
           Elem("back", NoAttrs, <<>>,
                <<Section("section-appendix.a", "app-a", <<"Appendix">>,
                          <<Para(IF where = "back" THEN indent ELSE "absent",
                                 <<"More", " ", "text", ".">>)>>)>>)>>) :
        <<where, indent>> \in {"abstract", "section", "back"} \X IndentValues}

\* A document with every kind of body element, references and contacts.
Reference(anchor, target, withFront) ==
    Elem("reference", [a \in {"anchor", "target"} |-> IF a = "anchor" THEN anchor ELSE target],
         <<>>,
         (IF withFront
          THEN <<Elem("front", NoAttrs, <<>>,
                      <<Leaf("title", <<"A", " ", "Title">>),
                        Elem("author", [a \in {"initials", "surname"} |->
                                IF a = "initials" THEN "S." ELSE "Bradner"], <<>>, <<>>),
                        Elem("date", [a \in {"month", "year"} |->
                                IF a = "month" THEN "March" ELSE "1997"], <<>>, <<>>)>>)>>
          ELSE <<>>)
         \o <<Elem("seriesInfo", [a \in {"name", "value"} |->
                      IF a = "name" THEN "RFC" ELSE "2119"], <<>>, <<>>)>>)

RichBody ==
    <<Para("absent", <<"See", " ">>),
      Elem("t", NoAttrs, <<"See", " ">>,
           <<WithTail(Elem("xref", Attr1("target", "intro"), <<>>, <<>>), <<" ", "and", " ">>),
             WithTail(Elem("xref", Attr1("target", "#intro"), <<"here">>, <<>>), <<" ">>),
             WithTail(Leaf("bcp14", <<"MUST">>), <<" ">>),
             WithTail(Leaf("em", <<"very">>), <<" ">>),
             WithTail(Leaf("tt", <<"code">>), <<".">>)>>),
      Elem("ul", NoAttrs, <<>>,
           <<Leaf("li", <<"one">>),
             Elem("li", NoAttrs, <<"two">>,
                  <<Elem("ol", NoAttrs, <<>>, <<Leaf("li", <<"a">>), Leaf("li", <<"b">>)>>)>>)>>),
      Elem("ol", NoAttrs, <<>>, <<Leaf("li", <<"first">>), Leaf("li", <<"second">>)>>),
      Elem("dl", NoAttrs, <<>>,
           <<Leaf("dt", <<"Term">>), Leaf("dd", <<"Plain", " ", "description">>),
             Leaf("dt", <<"Other">>),
             Elem("dd", NoAttrs, <<>>,
                  <<Leaf("t", <<"Nested", " ", "paragraph">>),
                    Elem("figure", Attr1("pn", "figure-1"), <<>>,
                         <<Leaf("name", <<"Layout">>),
                           Leaf("artwork", <<"+--+", "\n", "   ", "|", " ", "\n", "+--+">>)>>),
                    Elem("dl", NoAttrs, <<>>, <<Leaf("dt", <<"Inner">>), Leaf("dd", <<"text">>)>>),
                    Leaf("sourcecode", <<"x", "\n", "y">>)>>)>>),
      Elem("sourcecode", Attr1("type", "json"), <<"{", "}">>, <<>>),
      Leaf("artwork", <<"art">>),
      Elem("note", NoAttrs, <<>>, <<Leaf("name", <<"Note">>), Leaf("t", <<"Beware", ".">>)>>)>>

RichDocuments ==
    {Rfc(NoAttrs,
         <<Elem("front", NoAttrs, <<>>, <<Leaf("title", <<"Rich">>)>>),
           Elem("middle", NoAttrs, <<>>, <<Section("section-1", "intro", <<"Intro">>, RichBody)>>),
           Elem("back", NoAttrs, <<>>,
                <<Elem("displayreference", [a \in {"target", "to"} |->
                          IF a = "target" THEN "RFC2119" ELSE "BCP14"], <<>>, <<>>),
                  Elem("references", Attr1("anchor", "refs"), <<>>,
                       <<Leaf("name", <<"References">>),
                         Elem("references", Attr1("anchor", "normative"), <<>>,
                              <<Leaf("name", <<"Normative">>),
                                Reference("RFC2119", "https://example.com/rfc2119", TRUE),
                                Reference("RFC8174", "", withFront)>>)>>),
                  Elem("section", [a \in {"numbered", "anchor"} |->
                          IF a = "numbered" THEN "false" ELSE "contrib"], <<>>,
                       <<Leaf("name", <<"Contributors">>),
                         Elem("contact", Attr1("fullname", "Jane Doe"), <<>>,
                              <<Leaf("organization", <<"Org">>),
                                Elem("address", NoAttrs, <<>>,
                                     <<Elem("postal", NoAttrs, <<>>,
                                            <<Leaf("city", <<"Paris">>), Leaf("country", <<"France">>)>>),
                                       Leaf("email", <<"jane@example.com">>)>>)>>),
                         Elem("author", Attr1("surname", "Smith"), <<>>, <<>>)>>)>>)>>) :
        withFront \in BOOLEAN}

\* The anchors and numbered attributes of a back section.
BackAnchors ==
    {"acknowledgements", "Acknowledgements", "ACKNOWLEDGEMENTS", "contributors",
     "authors-addresses", "Authors-Addresses", "app-a"}
NumberedValues == {"absent", "false", "true"}
\* A back section with a paragraph, a contact and a list, before an appendix.
BackDocuments ==
    {Rfc(NoAttrs,
         <<Elem("front", NoAttrs, <<>>, <<Leaf("title", <<"Back">>)>>),
           Elem("back", NoAttrs, <<>>,
                <<Elem("section",
                       [a \in {"anchor"} \cup (IF numbered = "absent" THEN {} ELSE {"numbered"}) |->
                           IF a = "anchor" THEN anchor ELSE numbered],
                       <<>>,
                       <<Leaf("name", <<"Thanks">>), Para("absent", <<"Text", ".">>),
                         Elem("contact", Attr1("fullname", "Jane Doe"), <<>>, <<>>),
                         Elem("ul", NoAttrs, <<>>, <<Leaf("li", <<"one">>)>>)>>),
                  Section("section-appendix.b", "app-b", <<"Appendix">>,
                          <<Para("absent", <<"Text", ".">>)>>)>>)>>) :
        <<anchor, numbered>> \in BackAnchors \X NumberedValues}

\* What a reference entry may carry.
ReferenceShapes ==
    [anchor : {"RFC2119", "RFC8174", ""}, target : {"https://example.com/rfc", ""},
     front : BOOLEAN, authors : 0..2, title : BOOLEAN, series : BOOLEAN,
     date : {"absent", "year", "month"}, refcontent : BOOLEAN]
ReferenceOf(p) ==
    Elem("reference",
         [a \in (IF p.anchor # "" THEN {"anchor"} ELSE {}) \cup (IF p.target # "" THEN {"target"} ELSE {})
            |-> IF a = "anchor" THEN p.anchor ELSE p.target],
         <<>>,
         (IF p.front
          THEN <<Elem("front", NoAttrs, <<>>,
                      (IF p.title THEN <<Leaf("title", <<"Key", " ", "words">>)>> ELSE <<>>)
                      \o SubSeq(<<Elem("author", [a \in {"initials", "surname", "fullname"} |->
                                         CASE a = "initials" -> "S." [] a = "surname" -> "Bradner"
                                           [] OTHER -> "Scott Bradner"], <<>>, <<>>),
                                  Elem("author", Attr1("fullname", "Barry Leiba"), <<>>, <<>>)>>,
                                1, p.authors)
                      \o (IF p.date = "absent" THEN <<>>
                          ELSE <<Elem("date",
                                      [a \in {"year"} \cup (IF p.date = "month" THEN {"month"} ELSE {})
                                         |-> IF a = "year" THEN "1997" ELSE "March"],
                                      <<>>, <<>>)>>))>>
          ELSE <<>>)
         \o (IF p.series
             THEN <<Elem("seriesInfo", [a \in {"name", "value"} |->
                           IF a = "name" THEN "BCP" ELSE "14"], <<>>, <<>>),
                    Elem("seriesInfo", Attr1("name", "DOI"), <<>>, <<>>),
                    Elem("seriesInfo", [a \in {"name", "value"} |->
                           IF a = "name" THEN "RFC" ELSE "2119"], <<>>, <<>>)>>
             ELSE <<>>)
         \o (IF p.refcontent THEN <<Leaf("refcontent", <<"Work", " ", "in", " ", "Progress">>)>>
             ELSE <<>>))
\* A reference of every shape after a plain one, RFC2119 displayed as BCP14.
ReferenceDocuments ==
    {Rfc(NoAttrs,
         <<Elem("back", NoAttrs, <<>>,
                <<Elem("displayreference", [a \in {"target", "to"} |->
                          IF a = "target" THEN "RFC2119" ELSE "BCP14"], <<>>, <<>>),
                  Elem("references", NoAttrs, <<>>,
                       <<Elem("references", NoAttrs, <<>>,
                              <<Reference("RFC8174", "", TRUE), ReferenceOf(p)>>)>>)>>)>>) :
        p \in ReferenceShapes}

\* The items of a list: with text, without, or with a list nested in them.
ItemKinds == {"plain", "empty", "ul", "ol", "deep"}
ListItem(kind, i) ==
    Elem("li", NoAttrs, IF kind = "empty" THEN <<>> ELSE <<"item", ToString(i)>>,
         CASE kind \in {"ul", "ol"} ->
                <<Elem(kind, NoAttrs, <<>>, <<Leaf("li", <<"x">>), Leaf("li", <<"y">>)>>)>>
           [] kind = "deep" ->
                <<Elem("ol", NoAttrs, <<>>,
                       <<Leaf("li", <<"x">>),
                         Elem("li", NoAttrs, <<"y">>,
                              <<Elem("ol", NoAttrs, <<>>, <<Leaf("li", <<"z">>)>>)>>),
                         Leaf("li", <<"w">>)>>)>>
           [] OTHER -> <<>>)
\* A section with one list of up to MaxItems items.
ListDocuments ==
    {Rfc(NoAttrs,
         <<Elem("middle", NoAttrs, <<>>,
                <<Section("section-1", "lists", <<"Lists">>,
                          <<Elem(tag, NoAttrs, <<>>,
                                 [i \in 1..Len(kinds) |-> ListItem(kinds[i], i)])>>)>>)>>) :
        <<tag, kinds>> \in {"ul", "ol"} \X SeqsUpTo(ItemKinds, MaxItems)}

MaxNested == 2
\* What a dd may hold besides text, each with a text of its own.
NestedKinds == {"t", "figure", "ul", "ol", "dl", "artwork", "sourcecode"}
Marker(kind, i) == kind \o ToString(i)
NestedChild(kind, i) ==
    CASE kind = "figure" ->
           Elem("figure", NoAttrs, <<>>,
                <<Leaf("name", <<"Layout">>),
                  Leaf("artwork", <<Marker(kind, i), "\n", "+--+">>)>>)
      [] kind \in {"ul", "ol"} ->
           Elem(kind, NoAttrs, <<>>, <<Leaf("li", <<Marker(kind, i)>>), Leaf("li", <<"more">>)>>)
      [] kind = "dl" ->
           Elem("dl", NoAttrs, <<>>, <<Leaf("dt", <<"Inner">>), Leaf("dd", <<Marker(kind, i)>>)>>)
      [] OTHER -> Leaf(kind, <<Marker(kind, i)>>)
\* A paragraph, then a definition list of one term whose description holds
\* up to MaxNested nested elements.
DefinitionDocuments ==
    {Rfc(NoAttrs,
         <<Elem("middle", NoAttrs, <<>>,
                <<Section("section-1", "terms", <<"Terms">>,
                          <<Para("absent", <<"Before">>),
                            Elem("dl", NoAttrs, <<>>,
                                 <<Leaf("dt", <<"Term">>),
                                   Elem("dd", NoAttrs, <<>>,
                                        [i \in 1..Len(kinds) |-> NestedChild(kinds[i], i)])>>)>>)>>)>>) :
        kinds \in SeqsUpTo(NestedKinds, MaxNested) \ {<<>>}}

\* The places of the reference entries in the back matter: in groups of one
\* wrapping references element, directly in a references element, in two
\* references elements, in groups of two of them, directly beside a group.
ReferenceLayouts == {"wrapped", "direct", "two", "two wrapped", "beside"}
References(anchor, kids) ==
    Elem("references", Attr1("anchor", anchor), <<>>, <<Leaf("name", <<anchor>>)>> \o kids)
LayoutOf(layout, r1, r2) ==
    CASE layout = "wrapped" ->
           <<References("refs", <<References("normative", <<r1>>),
                                  References("informative", <<r2>>)>>)>>
      [] layout = "direct" -> <<References("refs", <<r1, r2>>)>>
      [] layout = "two" ->
           <<References("normative", <<r1>>), References("informative", <<r2>>)>>
      [] layout = "two wrapped" ->
           <<References("refs", <<References("normative", <<r1>>)>>),
             References("more", <<References("informative", <<r2>>)>>)>>
      [] OTHER -> <<References("refs", <<r1, References("informative", <<r2>>)>>)>>
LayoutDocuments ==
    {Rfc(NoAttrs,
         <<Elem("back", NoAttrs, <<>>,
                LayoutOf(layout, Reference("RFC2119", "https://example.com/rfc2119", TRUE),
                         Reference("RFC8174", "", withFront)))>>) :
        layout \in ReferenceLayouts, withFront \in BOOLEAN}

\* Documents without front, middle or back.
BareDocuments ==
    {Rfc(NoAttrs, <<>>),
     Rfc(NoAttrs, <<Elem("front", NoAttrs, <<>>, <<>>)>>),
     Rfc(NoAttrs, <<Elem("middle", NoAttrs, <<>>, <<>>), Elem("back", NoAttrs, <<>>, <<>>)>>)}

XmlFile(readable, wellformed, content) ==
    [readable |-> readable, wellformed |-> wellformed, content |-> content]

XmlFiles ==
    {XmlFile(TRUE, TRUE, d) :
        d \in ChainDocuments \cup TableDocuments \cup IndentDocuments \cup RichDocuments
              \cup BackDocuments \cup ReferenceDocuments \cup ListDocuments
              \cup DefinitionDocuments \cup LayoutDocuments
              \cup BareDocuments}
    \cup {XmlFile(FALSE, TRUE, None), XmlFile(TRUE, FALSE, None)}

----------------------------------------------------------------------------
(* The HTML documents the converter is run on.                             *)

\* Lines of a legacy rendering: prose, running headers and footers, a blank.
ProseLines ==
    {<<"Text", ".">>, <<"more", " ", "text">>, <<"1", ".", " ", "Introduction">>}
HeaderLines ==
    {<<"Smith", "   ", "Standards", " ", "Track", "   ", "[", "Page", " ", "1", "]">>,
     <<"Farrel", ",", " ", "et", " ", "al", ".", "   ", "Informational", "   ",
       "[", "Page", " ", "2", "]">>,
     <<"Narten", " ", "&", " ", "Alvestrand", "   ", "Best", " ", "Current", " ", "Practice",
       "   ", "[", "Page", " ", "1", "]">>,
     <<"Author", " ", "Name", "   ", "Category", "   ", "[", "Page", " ", "2", "]">>}
FooterLines ==
    {<<"RFC", " ", "7752", "   ", "Title", "   ", "March", " ", "2016">>}
BlankLines == {<<>>}
LineCatalogue == ProseLines \cup HeaderLines \cup FooterLines \cup BlankLines

\* The texts of up to MaxLines lines.
Texts == {JoinWith(<<"\n">>, ls) : ls \in SeqsUpTo(LineCatalogue, MaxLines) \ {<<>>}}

HtmlContent(title, metas, pres, spans) ==
    [title |-> title, metas |-> metas, pres |-> pres, spans |-> spans]
HtmlFile(readable, content) == [readable |-> readable, content |-> content]
NoSoup == HtmlContent(<<>>, <<>>, <<>>, <<>>)

\* One preformatted block holding a paginated text.
PaginatedFiles ==
    {HtmlFile(TRUE, HtmlContent(<<"RFC", " ", "7752">>, <<>>, <<text>>, <<>>)) : text \in Texts}

\* Several preformatted blocks, meta tags and section header spans.
BlockTexts == {<<"Text", ".">>, <<"more", " ", "text">>, <<"RFC", " ", "7752", "\n", "March", " ", "2016">>}
BlockFiles ==
    {HtmlFile(TRUE, HtmlContent(title, metas, pres,
                                <<[level |-> 2, text |-> <<"1.1", " ", "Scope">>, anchor |-> "section-1.1"],
                                  [level |-> 1, text |-> <<"1", " ", "Intro">>, anchor |-> ""]>>)) :
        <<title, metas, pres>> \in
            {<<>>, <<" ", "A", " ", "Title", " ">>}
            \X {<<>>, <<[name |-> "generator", content |-> "rfcmarkup"], [name |-> "", content |-> "x"]>>}
            \X SeqsUpTo(BlockTexts, MaxPre)}

HtmlFiles == PaginatedFiles \cup BlockFiles \cup {HtmlFile(FALSE, NoSoup)}

----------------------------------------------------------------------------
(* The converter object and convert().                                     *)

NoResult == [returned |-> FALSE, value |-> <<>>]
NoError == [raised |-> FALSE, type |-> "", cause |-> ""]
\* raise ValueError(...) from e
MalformedInput(cause) == [raised |-> TRUE, type |-> "ValueError", cause |-> cause]
\* A ValueError that int() raises and nothing catches.
Uncaught == [raised |-> TRUE, type |-> "ValueError", cause |-> ""]
\* "\n".join(self.markdown_lines)
Joined(lines) == JoinWith(<<"\n">>, lines)

\* __init__ of either class.
Init ==
    /\ conv \in {"xml", "html"}
    /\ file \in IF conv = "xml" THEN XmlFiles ELSE HtmlFiles
    /\ pc = "constructed"
    /\ root = None
    /\ soup = NoSoup
    /\ markdown_lines = <<>>
    /\ toc_entries = <<>>
    /\ section_id_to_anchor = NoMap
    /\ metadata = NoMap
    /\ sections = <<>>
    /\ result = NoResult
    /\ error = NoError
    /\ calls = 0
    /\ processed = {} /\ output_dir = {} /\ stack = <<>> /\ requests = <<>>

\* A rendering step of convert(): the lines are appended, or the exception
\* that cut them short leaves convert().
Emit(lines, next) ==
    /\ markdown_lines' = markdown_lines \o BeforeRaise(lines)
    /\ pc' = IF Raised(lines) THEN "raised" ELSE next
    /\ error' = IF Raised(lines) THEN Uncaught ELSE error

\* XmlToMdConverter.convert: etree.parse and getroot.
ParseXml ==
    /\ conv = "xml" /\ pc = "constructed"
    /\ IF ~file.readable
       THEN pc' = "raised" /\ error' = MalformedInput("OSError") /\ root' = root
       ELSE IF ~file.wellformed
       THEN pc' = "raised" /\ error' = MalformedInput("XMLSyntaxError") /\ root' = root
       ELSE pc' = "parsed" /\ error' = error /\ root' = file.content
    /\ UNCHANGED <<downloader, calls, conv, file, soup, markdown_lines, toc_entries, section_id_to_anchor,
                   metadata, sections, result>>

ProcessFront ==
    /\ conv = "xml" /\ pc = "parsed"
    /\ Emit(_process_front(root), "front")
    /\ UNCHANGED <<downloader, calls, conv, file, root, soup, toc_entries, section_id_to_anchor, metadata,
                   sections, result>>

BuildSectionAnchorMapping ==
    /\ conv = "xml" /\ pc = "front"
    /\ section_id_to_anchor' = _build_section_anchor_mapping(root, section_id_to_anchor)
    /\ pc' = "anchors"
    /\ UNCHANGED <<downloader, calls, conv, file, root, soup, markdown_lines, toc_entries, metadata, sections,
                   result, error>>

\* TOC generation placed before the pre-scan.
GenerateTocBeforeMapping ==
    /\ conv = "xml" /\ pc = "front"
    /\ Emit(_generate_toc(root, section_id_to_anchor, toc_entries), "toc")
    /\ UNCHANGED <<downloader, calls, conv, file, root, soup, toc_entries, section_id_to_anchor, metadata,
                   sections, result>>

GenerateToc ==
    /\ conv = "xml" /\ pc = "anchors"
    /\ Emit(_generate_toc(root, section_id_to_anchor, toc_entries), "toc")
    /\ UNCHANGED <<downloader, calls, conv, file, root, soup, toc_entries, section_id_to_anchor, metadata,
                   sections, result>>

ProcessMiddle ==
    /\ conv = "xml" /\ pc = "toc"
    /\ Emit(_process_middle(root), "middle")
    /\ UNCHANGED <<downloader, calls, conv, file, root, soup, toc_entries, section_id_to_anchor, metadata,
                   sections, result>>

ProcessBack ==
    /\ conv = "xml" /\ pc = "middle"
    /\ Emit(_process_back(root), "back")
    /\ UNCHANGED <<downloader, calls, conv, file, root, soup, toc_entries, section_id_to_anchor, metadata,
                   sections, result>>

ReturnXml ==
    /\ conv = "xml" /\ pc = "back"
    /\ result' = [returned |-> TRUE, value |-> Joined(markdown_lines)]
    /\ pc' = "returned"
    /\ UNCHANGED <<downloader, calls, conv, file, root, soup, markdown_lines, toc_entries, section_id_to_anchor,
                   metadata, sections, error>>

\* HtmlToMdConverter.convert: open, read, BeautifulSoup.
ParseHtml ==
    /\ conv = "html" /\ pc = "constructed"
    /\ IF ~file.readable
       THEN pc' = "raised" /\ error' = MalformedInput("OSError") /\ soup' = soup
       ELSE pc' = "parsed" /\ error' = error /\ soup' = file.content
    /\ UNCHANGED <<downloader, calls, conv, file, root, markdown_lines, toc_entries, section_id_to_anchor,
                   metadata, sections, result>>

ExtractMetadata ==
    /\ conv = "html" /\ pc = "parsed"
    /\ metadata' = _extract_metadata(soup, metadata)
    /\ pc' = "metadata"
    /\ UNCHANGED <<downloader, calls, conv, file, root, soup, markdown_lines, toc_entries, section_id_to_anchor,
                   sections, result, error>>

ExtractSections ==
    /\ conv = "html" /\ pc = "metadata"
    /\ sections' = _extract_sections(soup, sections)
    /\ pc' = "sections"
    /\ UNCHANGED <<downloader, calls, conv, file, root, soup, markdown_lines, toc_entries, section_id_to_anchor,
                   metadata, result, error>>

ProcessDocument ==
    /\ conv = "html" /\ pc = "sections"
    /\ Emit(_process_document(soup, metadata), "document")
    /\ UNCHANGED <<downloader, calls, conv, file, root, soup, toc_entries, section_id_to_anchor, metadata,
                   sections, result>>

ReturnHtml ==
    /\ conv = "html" /\ pc = "document"
    /\ result' = [returned |-> TRUE, value |-> Joined(markdown_lines)]
    /\ pc' = "returned"
    /\ UNCHANGED <<downloader, calls, conv, file, root, soup, markdown_lines, toc_entries, section_id_to_anchor,
                   metadata, sections, error>>

Next ==
    \/ ParseXml \/ ProcessFront \/ BuildSectionAnchorMapping \/ GenerateToc
    \/ ProcessMiddle \/ ProcessBack \/ ReturnXml
    \/ ParseHtml \/ ExtractMetadata \/ ExtractSections \/ ProcessDocument \/ ReturnHtml

Spec == Init /\ [][Next]_vars

\* The caller, holding what the first call returned, calls convert() again
\* on the same object: nothing of the object is set anew.
ConvertAgain ==
    /\ pc = "returned" /\ calls + 1 < MaxCalls
    /\ calls' = calls + 1
    /\ pc' = "constructed"
    /\ UNCHANGED <<downloader, conv, file, root, soup, markdown_lines, toc_entries,
                   section_id_to_anchor, metadata, sections, result, error>>

NextAgain == Next \/ ConvertAgain

SpecAgain == Init /\ [][NextAgain]_vars

----------------------------------------------------------------------------
(* What the properties speak of.                                           *)

Range(q) == {q[i] : i \in 1..Len(q)}
XmlPhases == <<"constructed", "parsed", "front", "anchors", "toc", "middle", "back", "returned">>
\* The file can be opened, read and parsed.
Parsable == file.readable /\ (conv = "xml" => file.wellformed)

RECURSIVE SectionsUnder(_, _)
\* The sections nested in an element, each with its nesting depth.
SectionsUnder(e, d) ==
    UNION {{<<k, d>>} \cup SectionsUnder(k, d + 1) : k \in Range(FindAll(e, "section"))}
\* Every section of middle and back.
BodySections(rt) == SectionsUnder(Find(rt, "middle"), 1) \cup SectionsUnder(Find(rt, "back"), 1)
\* The sections the recursive section processor is called on.
ProcessedSections(rt) ==
    SectionsUnder(Find(rt, "middle"), 1)
    \cup UNION {{<<k, 1>>} \cup SectionsUnder(k, 2) :
                  k \in {b \in Range(FindAll(Find(rt, "back"), "section")) :
                            Get(b, "numbered", "true") # "false"
                            /\ Get(b, "anchor", "") \notin SpecialAnchors}}
\* The sections a heading is rendered for: those and the unnumbered back sections.
RenderedSections(rt) ==
    ProcessedSections(rt) \cup {<<k, 1>> : k \in Range(FindAll(Find(rt, "back"), "section"))}
NameOf(section) == Find(section, "name").text
\* Every section with both a pn and an anchor is a key of the map, with its anchor.
MapComplete(rt, m) ==
    \A sd \in BodySections(rt) :
        Get(sd[1], "pn", "") # "" /\ Get(sd[1], "anchor", "") # ""
        => MapGet(m, Get(sd[1], "pn", ""), "") = Get(sd[1], "anchor", "")

RECURSIVE TocEntriesOf(_)
\* The li entries of an explicit TOC list, at every depth.
TocEntriesOf(ul) ==
    UNION {{li} \cup TocEntriesOf(Find(li, "ul")) : li \in Range(FindAll(ul, "li"))}
ExplicitToc(rt) == Find(Find(Find(Find(rt, "front"), "toc"), "section"), "ul")
\* The cross-reference targets of the explicit TOC.
TocTargets(rt) ==
    {Get(Head(FindAll(Find(li, "t"), "xref")), "target", "") :
        li \in {e \in TocEntriesOf(ExplicitToc(rt)) : FindAll(Find(e, "t"), "xref") # <<>>}}
\* A line of the rendered TOC: indentation, "- [", a title, "](#", a target, ")".
IsTocLine(l) ==
    /\ Len(l) >= 4 /\ l[Len(l)] = ")" /\ l[Len(l) - 2] = "](#"
    /\ \E j \in 1..Len(l) : l[j] = "- [" /\ \A k \in 1..(j - 1) : l[k] = "  "
\* The link targets of the rendered TOC.
TocLinks(lines) == {l[Len(l) - 1] : l \in {x \in Range(lines) : IsTocLine(x)}}
\* The lines the step appends.
NewLines == SubSeq(markdown_lines', Len(markdown_lines) + 1, Len(markdown_lines'))
\* The number of "#" markers a line starts with.
RECURSIVE Markers(_)
Markers(l) == IF l # <<>> /\ Head(l) = "#" THEN 1 + Markers(Tail(l)) ELSE 0
\* The line is a heading with this title.
IsHeadingOf(l, title) ==
    /\ Markers(l) >= 1 /\ Len(l) > Markers(l) /\ l[Markers(l) + 1] = " "
    /\ SubSeq(l, Markers(l) + 2, Len(l)) = title

----------------------------------------------------------------------------
(* C1: convert() raises the malformed-input error, a ValueError carrying   *)
(* its cause, exactly on an input that cannot be read or parsed, and then  *)
(* returns nothing; on every other input it returns and does not raise.    *)
C1_RaisesOnlyMalformedInput ==
    /\ error.raised => /\ ~Parsable
                       /\ error.type = "ValueError" /\ error.cause # ""
                       /\ ~result.returned
    /\ result.returned => Parsable /\ ~error.raised /\ result.value = Joined(markdown_lines)
    /\ pc = "raised" <=> error.raised

(* C2: once the XML document has parsed, convert() never raises, whatever  *)
(* optional elements and attributes are absent, empty or unexpected.       *)
C2_ParsedNeverRaises ==
    (conv = "xml" /\ root # None) => pc # "raised" /\ ~error.raised

(* C3: the phases of convert() run in the order front, anchor pre-scan,    *)
(* TOC, middle, back; the heading of the TOC is emitted by the step that   *)
(* follows the pre-scan, when the map is complete; and only the pre-scan   *)
(* step changes the map.                                                   *)
C3_MapBuiltBeforeToc ==
    [][conv = "xml" =>
        /\ pc' # pc =>
             \/ pc' = "raised"
             \/ \E i \in 1..(Len(XmlPhases) - 1) : pc = XmlPhases[i] /\ pc' = XmlPhases[i + 1]
        /\ (\E i \in 1..Len(NewLines) : NewLines[i] = <<"## Table of Contents">>)
             => pc = "anchors" /\ MapComplete(root, section_id_to_anchor)
        /\ pc # "front" => section_id_to_anchor' = section_id_to_anchor
        /\ pc = "front" => pc' = "anchors" /\ markdown_lines' = markdown_lines]_vars
C3_Witness ==
    /\ conv = "xml" /\ pc = "middle"
    /\ Cardinality(DOMAIN section_id_to_anchor) >= 5
    /\ \E i \in 1..Len(markdown_lines) : IsTocLine(markdown_lines[i])

(* C4: after the pre-scan every section of middle and back, at every       *)
(* depth, that has a pn and an anchor is mapped from its pn to its anchor; *)
(* a TOC entry that targets such a pn is linked to the section's anchor    *)
(* and not to the pn.                                                      *)
C4_NestedAnchorsMapped ==
    (conv = "xml" /\ pc \in {"anchors", "toc", "middle", "back", "returned"}) =>
        /\ MapComplete(root, section_id_to_anchor)
        /\ pc # "anchors" =>
             \A sd \in BodySections(root) :
                 (/\ Get(sd[1], "pn", "") # "" /\ Get(sd[1], "anchor", "") # ""
                  /\ Get(sd[1], "pn", "") \in TocTargets(root))
                 => /\ Get(sd[1], "anchor", "") \in TocLinks(markdown_lines)
                    /\ Get(sd[1], "pn", "") \notin TocLinks(markdown_lines)
C4_Witness ==
    /\ conv = "xml" /\ pc = "toc"
    /\ \E sd \in BodySections(root) :
        /\ sd[2] = 3 /\ Get(sd[1], "pn", "") \in TocTargets(root)
        /\ Get(sd[1], "anchor", "") # ""
        /\ Get(sd[1], "anchor", "") \in TocLinks(markdown_lines)

(* C5: every rendered section of middle and back that carries an anchor   *)
(* has the line <a name="ANCHOR"></a> immediately before its heading line, *)
(* so every TOC link that comes from the anchor map has its anchor tag in  *)
(* the rendered body.                                                      *)
C5_AnchorTagBeforeHeading ==
    (conv = "xml" /\ pc = "returned") =>
        /\ \A sd \in RenderedSections(root) :
               Get(sd[1], "anchor", "") # "" /\ NameOf(sd[1]) # <<>>
               => \E i \in 1..(Len(markdown_lines) - 1) :
                      /\ markdown_lines[i] = AnchorTag(Get(sd[1], "anchor", ""))
                      /\ IsHeadingOf(markdown_lines[i + 1], NameOf(sd[1]))
        /\ \A pn \in DOMAIN section_id_to_anchor :
               section_id_to_anchor[pn] \in TocLinks(markdown_lines)
               => AnchorTag(section_id_to_anchor[pn]) \in Range(markdown_lines)

(* C6: the heading the recursive section processor emits for a section at  *)
(* nesting depth d has exactly min(d, 6) "#" markers, and a section nested *)
(* deeper than 6 still gets its heading.                                   *)
C6_HeadingLevelClamped ==
    (conv = "xml" /\ pc = "returned") =>
        /\ \A sd \in ProcessedSections(root) :
               NameOf(sd[1]) # <<>>
               => /\ \E l \in Range(markdown_lines) : IsHeadingOf(l, NameOf(sd[1]))
                  /\ \A l \in Range(markdown_lines) :
                         IsHeadingOf(l, NameOf(sd[1])) => Markers(l) = Min(sd[2], 6)
        /\ \A l \in Range(markdown_lines) : Markers(l) <= 6
C6_Witness ==
    /\ conv = "xml" /\ pc = "returned"
    /\ \E sd \in ProcessedSections(root) :
        /\ sd[2] > 6 /\ NameOf(sd[1]) # <<>>
        /\ \E l \in Range(markdown_lines) : IsHeadingOf(l, NameOf(sd[1])) /\ Markers(l) = 6

\* The tables of the body sections.
Tables(rt) == {k \in UNION {Range(sd[1].kids) : sd \in BodySections(rt)} : k.tag = "table"}
HeaderCount(t) == Len(FindAll(Find(Find(t, "thead"), "tr"), "th"))
BodyRows(t) == FindAll(Find(t, "tbody"), "tr")
\* The rendered lines of tables, and among them the data rows of table t.
TableLines(lines) == SelectSeq(lines, LAMBDA l : l # <<>> /\ Head(l) = "| ")
DataLines(t, lines) ==
    IF HeaderCount(t) > 0 THEN SubSeq(TableLines(lines), 3, Len(TableLines(lines)))
    ELSE TableLines(lines)
\* The number of cells of a rendered row.
CellsOfLine(l) == 1 + Cardinality({i \in 1..Len(l) : l[i] = " | "})
\* The row of a tr, its cells followed by empty cells up to h.
PaddedLine(tr, h) ==
    LET c == FindAll(tr, "td")
        n == IF Len(c) > h THEN Len(c) ELSE h
    IN <<"| ">> \o JoinWith(<<" | ">>, [i \in 1..n |-> IF i <= Len(c) THEN c[i].text ELSE <<>>])
       \o <<" |">>
SeparatorLine(h) == <<"| ">> \o JoinWith(<<" | ">>, [i \in 1..h |-> <<"---">>]) \o <<" |">>
OneTable == conv = "xml" /\ pc = "returned" /\ Cardinality(Tables(root)) = 1

(* C7, as stated: every body row with fewer cells than the header is       *)
(* rendered with empty cells added up to the header column count, every    *)
(* rendered data row has at least as many cells as the header, and the     *)
(* separator row has one --- cell per header column.                       *)
C7_EveryShortRowPadded ==
    OneTable =>
        \A t \in Tables(root) :
            /\ \A tr \in Range(BodyRows(t)) :
                   Len(FindAll(tr, "td")) < HeaderCount(t)
                   => PaddedLine(tr, HeaderCount(t)) \in Range(DataLines(t, markdown_lines))
            /\ \A l \in Range(DataLines(t, markdown_lines)) : CellsOfLine(l) >= HeaderCount(t)
            /\ HeaderCount(t) > 0 => TableLines(markdown_lines)[2] = SeparatorLine(HeaderCount(t))

(* C7, amended: the rendered data rows are the body rows that have at      *)
(* least one cell, in order, each with empty cells added up to the header  *)
(* column count; a body row without cells is left out; every rendered data *)
(* row has at least as many cells as the header, and the separator row has *)
(* one --- cell per header column.                                         *)
C7_RowsWithCellsPadded ==
    OneTable =>
        \A t \in Tables(root) :
            LET rows == SelectSeq(BodyRows(t), LAMBDA tr : FindAll(tr, "td") # <<>>)
            IN /\ DataLines(t, markdown_lines)
                    = [i \in 1..Len(rows) |-> PaddedLine(rows[i], HeaderCount(t))]
               /\ \A l \in Range(DataLines(t, markdown_lines)) : CellsOfLine(l) >= HeaderCount(t)
               /\ HeaderCount(t) > 0
                    => TableLines(markdown_lines)[2] = SeparatorLine(HeaderCount(t))
C7_Witness ==
    /\ OneTable
    /\ \E t \in Tables(root) :
        /\ HeaderCount(t) = 2
        /\ \E tr \in Range(BodyRows(t)) : Len(FindAll(tr, "td")) = 1
        /\ <<"| ", "td", "1", " | ", " |">> \in Range(DataLines(t, markdown_lines))

\* The text the HTML converter has put out, and the block it was made from.
Extracted == pc \in {"document", "returned"} /\ conv = "html" /\ soup.pres # <<>>
OutputLines == Split(Last(markdown_lines), "\n")
InputLines == Split(soup.pres[1], "\n")
\* A running header: author text, a gap, category text, a gap, [Page N].
IsRunningHeader(l) ==
    /\ Len(l) >= 9
    /\ SubSeq(l, Len(l) - 4, Len(l) - 2) = <<"[", "Page", " ">>
    /\ l[Len(l) - 1] \in Digits /\ l[Len(l)] = "]"
    /\ l[Len(l) - 5] \in Whitespace
    /\ l[1] \notin Whitespace
    /\ \E g \in 2..(Len(l) - 7) : l[g] \in Whitespace /\ WsLen(l[g]) >= 2 /\ l[g + 1] \in Words
\* A running footer: RFC NNNN ... <Month> <Year>.
IsRunningFooter(l) ==
    /\ Len(l) >= 9
    /\ l[1] = "RFC" /\ l[2] = " " /\ l[3] \in Digits /\ l[4] \in Whitespace
    /\ l[Len(l)] \in FourDigits /\ l[Len(l) - 1] \in Whitespace /\ l[Len(l) - 2] \in Months
    /\ l[Len(l) - 3] \in Whitespace
\* A line of blanks, dashes and form feeds only.
IsSeparator(l) == AllIn(l, Whitespace \cup {"-", "---", "\f"})
IsPageBreakLine(l) ==
    IsRunningHeader(Strip(l)) \/ IsRunningFooter(Strip(l)) \/ IsSeparator(l)
RECURSIVE IsSubsequence(_, _)
\* The elements of p occur in q, in the order of p.
IsSubsequence(p, q) ==
    IF p = <<>> THEN TRUE
    ELSE IF q = <<>> THEN FALSE
    ELSE IF Head(p) = Head(q) THEN IsSubsequence(Tail(p), Tail(q))
    ELSE IsSubsequence(p, Tail(q))

(* C8: the text the HTML converter extracts is the concatenation of the    *)
(* text of every pre block of the document, in document order; the output  *)
(* is that text with its page breaks removed.                              *)
C8_EveryPreBlockExtracted ==
    Extracted => Last(markdown_lines) = _remove_page_breaks(Flatten(soup.pres))

(* C9: _remove_page_breaks deletes only header, footer and separator       *)
(* lines: the other input lines are in the output unchanged and in their   *)
(* order, no output line is a join of input lines, and a text without      *)
(* page-break lines is returned as it is.                                  *)
C9_OtherLinesUnchanged ==
    Extracted =>
        /\ IsSubsequence(SelectSeq(InputLines, LAMBDA l : ~IsPageBreakLine(l)), OutputLines)
        /\ \A l \in Range(OutputLines) : l = <<>> \/ l \in Range(InputLines)
        /\ (\A l \in Range(InputLines) : ~IsPageBreakLine(l)) => OutputLines = InputLines

\* The atoms of p end the line q.
IsSuffix(p, q) == Len(p) <= Len(q) /\ SubSeq(q, Len(q) - Len(p) + 1, Len(q)) = p

(* C10: every running header (author text, category text, [Page N]) and    *)
(* every running footer (RFC NNNN ... Month Year) of the input is removed  *)
(* by _remove_page_breaks: none is a line, or the end of a line, of the    *)
(* result.                                                                 *)
C10_NoHeaderOrFooterSurvives ==
    Extracted =>
        \A l \in Range(InputLines) :
            (IsRunningHeader(Strip(l)) \/ IsRunningFooter(Strip(l)))
            => \A o \in Range(OutputLines) : ~IsSuffix(Strip(l), o)

----------------------------------------------------------------------------
(* HtmlToMdConverter: the section anchors and headings of the              *)
(* specification (sections 3 and 4.2, pass 6).                             *)

RECURSIVE MoreLabel(_)
\* The atoms of (.N)* at the start of t.
MoreLabel(t) ==
    IF Len(t) >= 2 /\ t[1] = "." /\ t[2] \in Digits
    THEN 2 + MoreLabel(SubSeq(t, 3, Len(t))) ELSE 0
\* The atoms of the numeric label N(.N)* at the start of t, 0 when none.
LabelLen(t) == IF t # <<>> /\ Head(t) \in Digits THEN 1 + MoreLabel(Tail(t)) ELSE 0
\* An anchor that keeps the dots of the label.
DottedAnchor(section_num) == <<"section-">> \o section_num
\* "section-" and the label with each dot replaced by a hyphen.
_create_section_anchor(section_num) ==
    <<"section-">> \o [i \in 1..Len(section_num) |->
                         IF section_num[i] = "." THEN "-" ELSE section_num[i]]
\* A section boundary: <digits>(.<digits>)*. <title> from column 0.
IsBoundary(l) ==
    LET k == LabelLen(l)
    IN k > 0 /\ Len(l) >= k + 3 /\ l[k + 1] = "." /\ l[k + 2] = " " /\ l[k + 3] \notin Whitespace
\* The heading of a section: <a id="ANCHOR"></a> **`label. title`**
SectionHeader(l) ==
    LET k == LabelLen(l)
    IN <<"<a id=\"">> \o _create_section_anchor(SubSeq(l, 1, k)) \o <<"\"></a> **", Backtick>>
       \o SubSeq(l, 1, k) \o <<". ">> \o SubSeq(l, k + 3, Len(l)) \o <<Backtick, "**">>

\* The line that opens a fenced text block, and the index of the next line
\* after i that is not empty.
TextFence == <<Fence, "text">>
NextContent(lines, i) ==
    IF \E j \in (i + 1)..Len(lines) : lines[j] # <<>>
    THEN CHOOSE j \in (i + 1)..Len(lines) : lines[j] # <<>> /\ \A k \in (i + 1)..(j - 1) : lines[k] = <<>>
    ELSE 0

(* C11: for a text with k >= 1 section boundaries the output of the HTML   *)
(* converter has exactly the k anchored headings of those boundaries, in   *)
(* document order, each followed by a fenced text block, and the text      *)
(* before the first boundary is in a fenced text block; with no boundary   *)
(* the whole text is in one fenced text block.                             *)
C11_SectionsAnchoredAndFenced ==
    Extracted =>
        LET bounds == SelectSeq(InputLines, IsBoundary)
            heads == SelectSeq(OutputLines, LAMBDA l : l # <<>> /\ Head(l) = "<a id=\"")
        IN /\ heads = [i \in 1..Len(bounds) |-> SectionHeader(bounds[i])]
           /\ \A i \in 1..Len(OutputLines) :
                  (OutputLines[i] # <<>> /\ Head(OutputLines[i]) = "<a id=\"")
                  => NextContent(OutputLines, i) # 0
                     /\ OutputLines[NextContent(OutputLines, i)] = TextFence
           /\ (\E i \in 1..Len(InputLines) : Strip(InputLines[i]) # <<>> /\ ~IsPageBreakLine(InputLines[i]))
                  => /\ TextFence \in Range(OutputLines)
                     /\ Last(OutputLines) = <<Fence>>
           /\ bounds = <<>>
                  => Cardinality({i \in 1..Len(OutputLines) : OutputLines[i] = TextFence}) <= 1

----------------------------------------------------------------------------
(* HtmlToMdConverter: the text passes of the specification (section 4.2,   *)
(* passes 4 and 5) and _normalize_text.                                    *)

\* The length of the longest text a pass is applied to, and the number of
\* lines of the longest text the TOC is extracted from.
MaxText == 6
MaxTocLines == 4

RECURSIVE NewlineRun(_)
\* The number of newlines t starts with.
NewlineRun(t) == IF t # <<>> /\ Head(t) = "\n" THEN 1 + NewlineRun(Tail(t)) ELSE 0
RECURSIVE DropOneNewline(_)
\* A pass that shortens a run of three or more newlines by one.
DropOneNewline(text) ==
    IF text = <<>> THEN <<>>
    ELSE IF Head(text) = "\n"
    THEN LET n == NewlineRun(text)
         IN Rep(<<"\n">>, IF n >= 3 THEN n - 1 ELSE n) \o DropOneNewline(SubSeq(text, n + 1, Len(text)))
    ELSE <<Head(text)>> \o DropOneNewline(Tail(text))
RECURSIVE _collapse_empty_lines(_)
\* Pass 4: a run of three or more newlines becomes two.
_collapse_empty_lines(text) ==
    IF text = <<>> THEN <<>>
    ELSE IF Head(text) = "\n"
    THEN LET n == NewlineRun(text)
         IN Rep(<<"\n">>, IF n >= 3 THEN 2 ELSE n)
            \o _collapse_empty_lines(SubSeq(text, n + 1, Len(text)))
    ELSE <<Head(text)>> \o _collapse_empty_lines(Tail(text))

RECURSIVE SingleEmptyLines(_, _)
\* The second loop of _normalize_text: an empty line after an empty line is dropped.
SingleEmptyLines(lines, prev_empty) ==
    IF lines = <<>> THEN <<>>
    ELSE IF Strip(Head(lines)) = <<>>
    THEN (IF prev_empty THEN <<>> ELSE <<Head(lines)>>) \o SingleEmptyLines(Tail(lines), TRUE)
    ELSE <<Head(lines)>> \o SingleEmptyLines(Tail(lines), FALSE)
_normalize_text(text) ==
    IF text = <<>> THEN <<>>
    ELSE LET lines == Split(text, "\n")
             normalized_lines == [i \in 1..Len(lines) |-> RStrip(lines[i])]
         IN JoinWith(<<"\n">>, SingleEmptyLines(normalized_lines, FALSE))

\* The atoms of a dot leader, and Python's None as the result of a pass.
DotAtoms == {".", "...."}
NoEntry == <<"<None>">>
\* The line ends in a run of dots or spaced dots followed by a page number.
LooksLikeTocEntry(l) ==
    LET r == RStrip(l)
    IN /\ Len(r) >= 2 /\ Last(r) \in Digits
       /\ RStrip(Front(r)) # <<>> /\ Last(RStrip(Front(r))) \in DotAtoms
RECURSIVE StripLeader(_)
\* Without the trailing run of dots, spaced dots and blanks.
StripLeader(t) ==
    IF t # <<>> /\ Last(t) \in DotAtoms \cup Whitespace THEN StripLeader(Front(t)) ELSE t
\* An entry left with its dot leader and page number.
UncleanedEntry(text) == text
\* An entry without its dot leader and page number.
CleanEntry(text) ==
    StripLeader(IF LooksLikeTocEntry(text) THEN Front(RStrip(text)) ELSE text)

\* Pass 5, one entry: `<prefix>`[`<label>`](#section-...)`. <title>`, or
\* `<prefix><text>` when the entry has no label, or nothing.
_format_toc_entry(line) ==
    LET prefix == SubSeq(line, 1, Len(line) - Len(LStrip(line)))
        text == CleanEntry(LStrip(line))
        k == LabelLen(text)
        rest == SubSeq(text, (IF k < Len(text) /\ text[k + 1] = "." THEN k + 2 ELSE k + 1), Len(text))
        section_num == SubSeq(text, 1, k)
    IN IF text = <<>> THEN NoEntry
       ELSE IF k > 0 /\ rest # <<>> /\ Head(rest) \in Whitespace
       THEN <<Backtick>> \o prefix \o <<Backtick, "[", Backtick>> \o section_num
            \o <<Backtick, "](#">> \o _create_section_anchor(section_num)
            \o <<")", Backtick, ". ">> \o LStrip(rest) \o <<Backtick>>
       ELSE <<Backtick>> \o prefix \o text \o <<Backtick>>

\* A line beginning with Table of Contents only.
IsTableOfContents(l) == StartsAt(l, 1, <<"Table", " ", "of", " ", "Contents">>)
\* A line beginning with a TOC header token.
IsTocHeader(l) ==
    StartsAt(l, 1, <<"Table", " ", "of", " ", "Contents">>) \/ StartsAt(l, 1, <<"Contents">>)
\* The least element of a set of numbers, or the default for the empty set.
Least(S, default) == IF S = {} THEN default ELSE CHOOSE i \in S : \A j \in S : i <= j
\* Pass 5: the span of the TOC is replaced by the reformatted TOC; the
\* result is the text, the reformatted TOC and the index of the header.
_extract_toc(text) ==
    LET lines == Split(text, "\n")
        toc_start == Least({i \in 1..Len(lines) : IsTocHeader(lines[i])}, 0)
        toc_end == Least({j \in (toc_start + 1)..Len(lines) :
                            /\ Strip(lines[j]) # <<>> /\ Head(lines[j]) \notin Whitespace
                            /\ ~LooksLikeTocEntry(lines[j])}, Len(lines) + 1)
        entries == [j \in 1..(toc_end - toc_start - 1) |-> _format_toc_entry(lines[toc_start + j])]
        formatted == <<<<Backtick>> \o Strip(lines[toc_start]) \o <<Backtick>>, <<>>>>
                     \o SelectSeq(entries, LAMBDA e : e # NoEntry) \o <<<<>>>>
    IN IF toc_start = 0
       THEN [text |-> text, formatted_toc |-> NoEntry, toc_start |-> 0 - 1]
       ELSE [text |-> JoinWith(<<"\n">>, SubSeq(lines, 1, toc_start - 1) \o formatted
                                         \o SubSeq(lines, toc_end, Len(lines))),
             formatted_toc |-> JoinWith(<<"\n">>, formatted),
             toc_start |-> toc_start - 1]

----------------------------------------------------------------------------
(* The passes called one at a time on a constructed HtmlToMdConverter, as  *)
(* the unit tests call them.  file holds the argument of the call.         *)

\* A TOC line: blanks, a label of numbers, a separator, a title, a dot
\* leader and a page number; a labelled line has a title, and a page number
\* comes after a leader only.
TocLineParts ==
    {p \in [prefix : {<<>>, <<"   ">>, <<"   ", "   ">>},
            numbers : {<<>>, <<"1">>, <<"1", "2">>, <<"1", "2", "1">>},
            separator : {<<>>, <<".", " ">>, <<"   ">>},
            title : {<<>>, <<"Introduction">>, <<"Node", " ", "Descriptors">>},
            leader : {<<>>, <<"....">>, <<" ", ".", " ", ".", " ">>, <<"   ", "....", "   ">>},
            page : {<<>>, <<"2">>}] :
        /\ (p.numbers = <<>>) <=> (p.separator = <<>>)
        /\ p.numbers # <<>> => p.title # <<>>
        /\ p.page # <<>> => p.leader # <<>>}
\* The label N(.N)* of a sequence of numbers.
Label(numbers) == JoinWith(<<".">>, [i \in 1..Len(numbers) |-> <<numbers[i]>>])
TocLineOf(p) == p.prefix \o Label(p.numbers) \o p.separator \o p.title \o p.leader \o p.page

\* The lines of a text with a TOC, and the texts of at most MaxTocLines lines.
TocTextLines ==
    {<<"Some", " ", "text">>, <<>>, <<"Table", " ", "of", " ", "Contents">>, <<"Contents">>,
     <<"   ", "1", ".", " ", "Introduction", " ", "....", "2">>,
     <<"1", ".", "1", "   ", "Background", "   ", "....", "   ", "2">>,
     <<"   ", "Functional", " ", "Components">>,
     <<"1", ".", " ", "Introduction">>}
TocTexts == {JoinWith(<<"\n">>, ls) : ls \in SeqsUpTo(TocTextLines, MaxTocLines) \ {<<>>}}

PassArguments ==
    {[pass |-> "collapse", text |-> t] : t \in SeqsUpTo({"a", " ", "\n"}, MaxText)}
    \cup {[pass |-> "normalize", text |-> t] : t \in SeqsUpTo({"a", " ", "\n"}, MaxText)}
    \cup {[pass |-> "format", text |-> TocLineOf(p), parts |-> p] : p \in TocLineParts}
    \cup {[pass |-> "extract", text |-> t] : t \in TocTexts}
    \cup {[pass |-> "anchor", text |-> Label(p.numbers), parts |-> p] :
            p \in {q \in TocLineParts : q.numbers # <<>> /\ q.leader # <<>>}}

PassInit ==
    /\ conv = "html"
    /\ file \in PassArguments
    /\ pc = "constructed"
    /\ root = None
    /\ soup = NoSoup
    /\ markdown_lines = <<>>
    /\ toc_entries = <<>>
    /\ section_id_to_anchor = NoMap
    /\ metadata = NoMap
    /\ sections = <<>>
    /\ result = NoResult
    /\ error = NoError
    /\ calls = 0
    /\ processed = {} /\ output_dir = {} /\ stack = <<>> /\ requests = <<>>

\* What a pass returns; applied again to its own result, the first result
\* is kept in markdown_lines.
Return(value, next) ==
    /\ result' = [returned |-> TRUE, value |-> value]
    /\ pc' = next
    /\ UNCHANGED <<downloader, calls, conv, file, root, soup, toc_entries, section_id_to_anchor,
                   metadata, sections, error>>

CollapseEmptyLines ==
    /\ pc = "constructed" /\ file.pass = "collapse"
    /\ Return(_collapse_empty_lines(file.text), "collapsed")
    /\ UNCHANGED markdown_lines
CollapseEmptyLinesAgain ==
    /\ pc = "collapsed"
    /\ Return(_collapse_empty_lines(result.value), "collapsed twice")
    /\ markdown_lines' = <<result.value>>
NormalizeText ==
    /\ pc = "constructed" /\ file.pass = "normalize"
    /\ Return(_normalize_text(file.text), "normalized")
    /\ UNCHANGED markdown_lines
NormalizeTextAgain ==
    /\ pc = "normalized"
    /\ Return(_normalize_text(result.value), "normalized twice")
    /\ markdown_lines' = <<result.value>>
FormatTocEntry ==
    /\ pc = "constructed" /\ file.pass = "format"
    /\ Return(_format_toc_entry(file.text), "formatted")
    /\ UNCHANGED markdown_lines
ExtractToc ==
    /\ pc = "constructed" /\ file.pass = "extract"
    /\ Return(_extract_toc(file.text), "extracted")
    /\ UNCHANGED markdown_lines
\* The anchor of a label, the TOC entry of the section and its heading.
CreateSectionAnchor ==
    /\ pc = "constructed" /\ file.pass = "anchor"
    /\ Return(_create_section_anchor(file.text), "anchored")
    /\ markdown_lines' = <<_format_toc_entry(TocLineOf(file.parts)),
                           SectionHeader(file.text \o <<".", " ">> \o file.parts.title)>>

PassNext ==
    \/ CollapseEmptyLines \/ CollapseEmptyLinesAgain \/ NormalizeText \/ NormalizeTextAgain
    \/ FormatTocEntry \/ ExtractToc \/ CreateSectionAnchor

PassSpec == PassInit /\ [][PassNext]_vars

\* The anchor the specification gives a label of these numbers.
AnchorOf(numbers) ==
    <<"section-">> \o JoinWith(<<"-">>, [i \in 1..Len(numbers) |-> <<numbers[i]>>])
\* The index of the first atom a in l, 0 when none.
IndexOf(l, a) == Least({i \in 1..Len(l) : l[i] = a}, 0)
\* The atoms of l strictly between the first atom a and the first atom b.
Between(l, a, b) == SubSeq(l, IndexOf(l, a) + 1, IndexOf(l, b) - 1)

(* C12: _format_toc_entry gives, for a line with a numeric label, the      *)
(* leading blanks as a monospace span, the label linked to section- and    *)
(* the label with dashes for dots, and ". title" as a monospace span,      *)
(* without the dot leader and page number; for a line without label, the   *)
(* blanks and the text as one monospace span without link; for a line      *)
(* that is empty after cleaning, None and not the empty string.            *)
C12_TocEntryFormatted ==
    pc = "formatted" =>
        LET p == file.parts
        IN IF p.numbers # <<>>
           THEN result.value
                  = <<Backtick>> \o p.prefix \o <<Backtick, "[", Backtick>> \o Label(p.numbers)
                    \o <<Backtick, "](#">> \o AnchorOf(p.numbers) \o <<")", Backtick, ". ">>
                    \o p.title \o <<Backtick>>
           ELSE IF p.title # <<>>
           THEN /\ result.value = <<Backtick>> \o p.prefix \o p.title \o <<Backtick>>
                /\ "](#" \notin Range(result.value)
           ELSE result.value = NoEntry /\ result.value # <<>>
C12_Witness ==
    /\ pc = "formatted"
    /\ file.parts.numbers = <<"1", "2", "1">> /\ file.parts.prefix = <<"   ", "   ">>
    /\ file.parts.leader = <<" ", ".", " ", ".", " ">> /\ file.parts.page = <<"2">>
    /\ Between(result.value, "](#", ")") = <<"section-", "1", "-", "2", "-", "1">>

(* C13: the anchor of a label is section- followed by the label with every *)
(* dot replaced by a dash, and the link of the TOC entry of a label and    *)
(* the id of the heading of its section are that anchor.                   *)
C13_AnchorFromLabelAlone ==
    pc = "anchored" =>
        /\ result.value = AnchorOf(file.parts.numbers)
        /\ Between(markdown_lines[1], "](#", ")") = result.value
        /\ Between(markdown_lines[2], "<a id=\"", "\"></a> **") = result.value
C13_Witness ==
    /\ pc = "anchored" /\ file.parts.numbers = <<"1", "2", "1">>
    /\ result.value = <<"section-", "1", "-", "2", "-", "1">>
    /\ Head(markdown_lines[2]) = "<a id=\""

\* A line beginning with a TOC header token; a line that ends in dots or
\* spaced dots and a page number; a line that ends the TOC.
BeginsWithTocHeader(l) ==
    \E h \in {<<"Table", " ", "of", " ", "Contents">>, <<"Contents">>} :
        Len(l) >= Len(h) /\ SubSeq(l, 1, Len(h)) = h
EndsInLeaderAndPage(l) ==
    /\ l # <<>> /\ Last(l) \in Digits
    /\ \E i \in 1..(Len(l) - 1) :
        l[i] \in DotAtoms /\ \A j \in (i + 1)..(Len(l) - 1) : l[j] \in DotAtoms \cup Whitespace
EndsToc(l) == l # <<>> /\ Head(l) \notin Whitespace /\ ~EndsInLeaderAndPage(l)

(* C14: _extract_toc reports the index of the first line beginning with    *)
(* Table of Contents or Contents; the span runs to the first later line    *)
(* that is not empty, starts in column 0 and is no TOC entry; the result   *)
(* is the text with that span replaced by the reformatted TOC; without a   *)
(* header line no TOC is reported and the text is returned as it is.       *)
C14_TocSpanReplaced ==
    pc = "extracted" =>
        LET lines == Split(file.text, "\n")
            r == result.value
            headers == {i \in 1..Len(lines) : BeginsWithTocHeader(lines[i])}
            s == r.toc_start + 1
        IN IF headers = {}
           THEN r.toc_start = 0 - 1 /\ r.formatted_toc = NoEntry /\ r.text = file.text
           ELSE /\ s \in headers /\ \A i \in headers : s <= i
                /\ \E e \in (s + 1)..(Len(lines) + 1) :
                    /\ e <= Len(lines) => EndsToc(lines[e])
                    /\ \A j \in (s + 1)..(e - 1) : ~EndsToc(lines[j])
                    /\ Split(r.text, "\n")
                         = SubSeq(lines, 1, s - 1) \o Split(r.formatted_toc, "\n")
                           \o SubSeq(lines, e, Len(lines))
                /\ <<Backtick>> \o lines[s] \o <<Backtick>> = Head(Split(r.formatted_toc, "\n"))
C14_Witness ==
    /\ pc = "extracted"
    /\ result.value.toc_start = 1
    /\ Len(Split(file.text, "\n")) = 4
    /\ Split(file.text, "\n")[2] = <<"Contents">>
    /\ EndsInLeaderAndPage(Split(file.text, "\n")[3]) /\ Head(Split(file.text, "\n")[3]) = "1"
    /\ Split(file.text, "\n")[4] = <<"1", ".", " ", "Introduction">>
    /\ Last(Split(result.value.text, "\n")) = <<"1", ".", " ", "Introduction">>
    /\ "](#" \in Range(result.value.formatted_toc)

\* The places of the atoms of t that are no newlines, and the number of
\* newlines before the k-th of them (after the last, for k one more).
Places(t) == SelectSeq([i \in 1..Len(t) |-> i], LAMBDA i : t[i] # "\n")
NewlinesBefore(t, k) ==
    (IF k > Len(Places(t)) THEN Len(t) + 1 ELSE Places(t)[k])
    - (IF k = 1 THEN 0 ELSE Places(t)[k - 1]) - 1
NoThreeNewlines(t) ==
    \A i \in 1..(Len(t) - 2) : ~(t[i] = "\n" /\ t[i + 1] = "\n" /\ t[i + 2] = "\n")

(* C15: collapsing the blank lines of a text leaves its other characters   *)
(* and every run of at most two newlines, and makes two of every longer    *)
(* run; the result has no three consecutive newlines, and collapsing it    *)
(* again returns it unchanged.  _normalize_text as well returns a text     *)
(* without three consecutive newlines that it does not change again.       *)
C15_CollapseIdempotent ==
    /\ pc \in {"collapsed", "collapsed twice", "normalized", "normalized twice"}
         => NoThreeNewlines(result.value)
    /\ pc \in {"collapsed twice", "normalized twice"} => result.value = markdown_lines[1]
    /\ pc = "collapsed"
         => /\ SelectSeq(result.value, LAMBDA a : a # "\n") = SelectSeq(file.text, LAMBDA a : a # "\n")
            /\ \A k \in 1..(Len(Places(file.text)) + 1) :
                   NewlinesBefore(result.value, k)
                     = IF NewlinesBefore(file.text, k) >= 3 THEN 2 ELSE NewlinesBefore(file.text, k)
C15_Witness ==
    /\ pc = "collapsed twice"
    /\ ~NoThreeNewlines(file.text)
    /\ result.value # file.text
    /\ \E i \in 1..(Len(result.value) - 1) : result.value[i] = "\n" /\ result.value[i + 1] = "\n"

\* The title and the target of an entry of the explicit TOC, and the link
\* the claim gives it.
EntryXrefs(li) == FindAll(Find(li, "t"), "xref")
EntryTitle(li) ==
    LET x == EntryXrefs(li)[IF Len(EntryXrefs(li)) >= 2 THEN 2 ELSE 1]
    IN IF Get(x, "derivedContent", "") # "" THEN <<Get(x, "derivedContent", "")>> ELSE x.text
EntryTarget(li) == Get(EntryXrefs(li)[1], "target", "")
TitledEntries(rt) ==
    {li \in TocEntriesOf(ExplicitToc(rt)) : EntryXrefs(li) # <<>> /\ EntryTitle(li) # <<>>}

(* C17: the TOC step never raises, and it emits a line for every titled    *)
(* entry of the explicit TOC: linked to the mapped anchor when the target  *)
(* of the entry is a key of the anchor map, and to the target itself when  *)
(* it is not.                                                              *)
C17_UnmappedTargetKept ==
    [][(conv = "xml" /\ pc = "anchors") =>
        /\ pc' = "toc" /\ ~error'.raised
        /\ \A li \in TitledEntries(root) :
             \E i \in 1..Len(NewLines) :
                 /\ IsTocLine(NewLines[i])
                 /\ IsSuffix(EntryTitle(li)
                             \o <<"](#",
                                  IF EntryTarget(li) \in DOMAIN section_id_to_anchor
                                  THEN section_id_to_anchor[EntryTarget(li)]
                                  ELSE EntryTarget(li),
                                  ")">>,
                             NewLines[i])]_vars
C17_Witness ==
    /\ conv = "xml" /\ pc = "toc"
    /\ \E li \in TitledEntries(root) :
        /\ EntryTarget(li) = "section-9" /\ EntryTarget(li) \notin DOMAIN section_id_to_anchor
        /\ EntryTarget(li) \in TocLinks(markdown_lines)
    /\ \E li \in TitledEntries(root) :
        /\ EntryTarget(li) \in DOMAIN section_id_to_anchor
        /\ section_id_to_anchor[EntryTarget(li)] \in TocLinks(markdown_lines)
        /\ EntryTarget(li) \notin TocLinks(markdown_lines)

\* An anchor in lower case.
LowerCase(anchor) ==
    CASE anchor \in {"Acknowledgements", "ACKNOWLEDGEMENTS"} -> "acknowledgements"
      [] anchor = "Contributors" -> "contributors"
      [] anchor = "Authors-Addresses" -> "authors-addresses"
      [] OTHER -> anchor
ConventionalNames == {"acknowledgements", "contributors", "authors-addresses"}
RECURSIVE BackRendering(_)
\* The lines of the back sections when the unnumbered ones are those marked
\* numbered="false" and those with a conventional name in any case.
BackRendering(ss) ==
    IF ss = <<>> THEN <<>>
    ELSE (IF Get(Head(ss), "numbered", "true") = "false"
             \/ LowerCase(Get(Head(ss), "anchor", "")) \in ConventionalNames
          THEN _process_unnumbered_section(Head(ss))
          ELSE _process_section(Head(ss), 1))
         \o BackRendering(Tail(ss))

(* C18: the back step renders a section of the back matter as an           *)
(* unnumbered H1 section when it is marked numbered="false" or its anchor  *)
(* is acknowledgements, contributors or authors-addresses in any case, and *)
(* by the recursive section processor at depth 1 otherwise.                *)
C18_UnnumberedIffConventional ==
    [][(conv = "xml" /\ pc = "middle" /\ pc' = "back") =>
        IsSuffix(BackRendering(FindAll(Find(root, "back"), "section")), NewLines)]_vars

\* The reference groups of the back matter and what a displayreference
\* element gives as the name of an anchor.
ReferenceGroupsOf(rt) == FindAll(Find(Find(rt, "back"), "references"), "references")
Overrides(rt) ==
    {d \in Range(FindAll(Find(rt, "back"), "displayreference")) :
        Get(d, "target", "") # "" /\ Get(d, "to", "") # ""}
DisplayId(rt, anchor) ==
    IF \E d \in Overrides(rt) : Get(d, "target", "") = anchor
    THEN Get(CHOOSE d \in Overrides(rt) :
                 /\ Get(d, "target", "") = anchor
                 /\ \A i, j \in 1..Len(Find(rt, "back").kids) :
                        (Find(rt, "back").kids[i] = d /\ Find(rt, "back").kids[j] \in Overrides(rt)
                         /\ Get(Find(rt, "back").kids[j], "target", "") = anchor) => j <= i,
             "to", "")
    ELSE anchor
\* The name of an author of a reference: initials and surname, the surname
\* alone, or the full name.
AuthorName(a) ==
    IF Get(a, "surname", "") # ""
    THEN (IF Get(a, "initials", "") # "" THEN <<Get(a, "initials", ""), " ">> ELSE <<>>)
         \o <<Get(a, "surname", "")>>
    ELSE AttrText(Get(a, "fullname", ""))
\* The seven parts of a reference entry, in their order; an absent one is empty.
ReferenceParts(rt, ref) ==
    LET front == Find(ref, "front")
        anchor == Get(ref, "anchor", "")
        names == SelectSeq([i \in 1..Len(FindAll(front, "author")) |->
                               AuthorName(FindAll(front, "author")[i])],
                           LAMBDA n : n # <<>>)
        series == SelectSeq(FindAll(ref, "seriesInfo"),
                            LAMBDA e : Get(e, "name", "") # "" /\ Get(e, "value", "") # "")
        date == Find(front, "date")
        month == Get(date, "month", "")
        year == Get(date, "year", "")
    IN <<IF DisplayId(rt, anchor) # ""
         THEN <<"<a name=\"", anchor, "\"></a>", " ", "**[", DisplayId(rt, anchor), "]**">>
         ELSE <<>>,
         IF names # <<>> THEN JoinWith(<<", ">>, names) \o <<",">> ELSE <<>>,
         IF Find(front, "title") # None /\ Find(front, "title").text # <<>>
         THEN <<"\"">> \o Find(front, "title").text \o <<"\",">> ELSE <<>>,
         IF series # <<>>
         THEN JoinWith(<<", ">>, [i \in 1..Len(series) |->
                                     <<Get(series[i], "name", ""), " ", Get(series[i], "value", "")>>])
              \o <<",">>
         ELSE <<>>,
         IF date # None /\ (month # "" \/ year # "")
         THEN (IF month # "" THEN <<month, " ">> ELSE <<>>) \o AttrText(year) \o <<".">>
         ELSE <<>>,
         IF Find(ref, "refcontent") # None THEN Find(ref, "refcontent").text ELSE <<>>,
         IF Get(ref, "target", "") # "" THEN <<"<", Get(ref, "target", ""), ">">> ELSE <<>>>>
\* The line of a reference: its present parts with one space between them.
ReferenceLine(rt, ref) ==
    JoinWith(<<" ">>, SelectSeq(ReferenceParts(rt, ref), LAMBDA part : part # <<>>))
\* The lines a step gives when every reference has its line and a blank line.
LinePerReference(rt, refs) ==
    Flatten([i \in 1..Len(refs) |-> <<ReferenceLine(rt, refs[i]), EmptyLine>>])
\* The same when a reference without front has no line.
LinePerReferenceWithFront(rt, refs) ==
    LinePerReference(rt, SelectSeq(refs, LAMBDA ref : Find(ref, "front") # None))
\* The lines are consecutive lines of the text.
IsBlockOf(ls, text) ==
    \E k \in 0..(Len(text) - Len(ls)) : SubSeq(text, k + 1, k + Len(ls)) = ls

RECURSIVE NumberedFromOne(_, _)
\* The lines of a list when the item at place i of an ordered list has the
\* number i and the item of an unordered list has a dash, whatever lists
\* are nested in the items.
NumberedFromOne(list, level) ==
    LET items == FindAll(list, "li")
        nested(li) == SelectSeq(li.kids, LAMBDA k : k.tag \in {"ul", "ol"})
    IN Flatten([i \in 1..Len(items) |->
          (IF _get_element_text(items[i]) # <<>>
           THEN <<Rep(<<"  ">>, level)
                  \o <<IF list.tag = "ol" THEN ToString(i) \o "." ELSE "-", " ">>
                  \o _get_element_text(items[i])>>
           ELSE <<>>)
          \o Flatten([j \in 1..Len(nested(items[i])) |->
                        NumberedFromOne(nested(items[i])[j], level + 1)])])
\* The lists that are children of the sections of middle.
SectionLists(rt) ==
    {k \in UNION {Range(sd[1].kids) : sd \in SectionsUnder(Find(rt, "middle"), 1)} :
        k.tag \in {"ul", "ol"}}
\* The numbers of the item lines at a level of indentation, in their order.
NumbersAt(lines, level) ==
    LET at == SelectSeq(lines, LAMBDA l : /\ Len(l) > level + 1
                                          /\ SubSeq(l, 1, level) = Rep(<<"  ">>, level)
                                          /\ l[level + 1] \in {"-"} \cup {ToString(i) \o "." : i \in 1..MaxItems}
                                          /\ l[level + 2] = " ")
    IN [i \in 1..Len(at) |-> at[i][level + 1]]

(* C20: the items of every ordered list, nested or not, are numbered from  *)
(* 1 by their place in that list; the items of an unordered list have a    *)
(* dash and take no number; a list nested in an item leaves the numbers    *)
(* of the items after it as they are.                                      *)
C20_ListsNumberedFromOne ==
    [][(conv = "xml" /\ pc = "toc" /\ pc' = "middle") =>
        \A list \in SectionLists(root) :
            IsBlockOf(NumberedFromOne(list, 0) \o <<EmptyLine>>, NewLines)]_vars
C20_Witness ==
    /\ conv = "xml" /\ pc = "middle"
    /\ \E list \in SectionLists(root) :
        /\ list.tag = "ol" /\ Len(FindAll(list, "li")) = 3
        /\ Find(FindAll(list, "li")[1], "ul") # None
        /\ Find(FindAll(list, "li")[2], "ol") # None
        /\ Find(Find(FindAll(list, "li")[2], "ol"), "ol") = None
        /\ Len(FindAll(Find(FindAll(list, "li")[2], "ol"), "li")) = 3
        /\ FindAll(list, "li")[3].kids = <<>> /\ FindAll(list, "li")[3].text # <<>>
        /\ NumbersAt(markdown_lines, 0) = <<"1.", "2.", "3.">>
        /\ NumbersAt(markdown_lines, 1) = <<"-", "-", "1.", "2.", "3.">>
        /\ NumbersAt(markdown_lines, 2) = <<"1.">>

(* C16: a second call of convert() on the same object, with the input      *)
(* unchanged, returns the string the first call returned.                  *)
C16_SecondCallReturnsTheSame ==
    [][(calls >= 1 /\ pc # "returned" /\ pc' = "returned") => result'.value = result.value]_vars


----------------------------------------------------------------------------
(* lib/utils.py.  An RFC number is a sequence of characters; a run of      *)
(* decimal digits is one atom.                                             *)

MaxChars == 4
MaxRefs == 2

DigitRuns == {"1", "2119", "7752", "8174"}
\* str.lower() and str.upper() of one character.
LowerChar(ch) ==
    CASE ch = "R" -> "r" [] ch = "F" -> "f" [] ch = "C" -> "c" [] ch = "X" -> "x"
      [] ch = "M" -> "m" [] ch = "L" -> "l" [] ch = "I" -> "i" [] ch = "D" -> "d"
      [] OTHER -> ch
Lower(text) == [i \in 1..Len(text) |-> LowerChar(text[i])]
UpperChar(ch) ==
    CASE ch = "r" -> "R" [] ch = "f" -> "F" [] ch = "c" -> "C" [] ch = "x" -> "X"
      [] ch = "m" -> "M" [] ch = "l" -> "L" [] ch = "i" -> "I" [] ch = "d" -> "D"
      [] OTHER -> ch
Upper(text) == [i \in 1..Len(text) |-> UpperChar(text[i])]
\* text.startswith(prefix)
StartsWith(text, prefix) == Len(text) >= Len(prefix) /\ SubSeq(text, 1, Len(prefix)) = prefix

\* A number that keeps its letters as they are.
CaseKept(rfc_input) ==
    LET cleaned == Strip(SelectSeq(rfc_input, LAMBDA ch : ch # " "))
    IN IF ~StartsWith(cleaned, <<"r", "f", "c">>) THEN <<"r", "f", "c">> \o cleaned ELSE cleaned
\* rfc_input.replace(" ", "").strip().lower(), with "rfc" in front if not there.
normalize_rfc_number(rfc_input) ==
    LET cleaned == Lower(Strip(SelectSeq(rfc_input, LAMBDA ch : ch # " ")))
    IN IF ~StartsWith(cleaned, <<"r", "f", "c">>) THEN <<"r", "f", "c">> \o cleaned ELSE cleaned

RECURSIVE Descendants(_, _)
\* elem.findall(".//tag"): the descendants with that tag, in document order.
Descendants(e, tag) ==
    Flatten([i \in 1..Len(e.kids) |->
                (IF e.kids[i].tag = tag THEN <<e.kids[i]>> ELSE <<>>)
                \o Descendants(e.kids[i], tag)])

\* The loop over the references of back: the anchors that start with RFC in
\* any case, normalized.
RfcAnchors(references) ==
    {normalize_rfc_number(Get(references[i], "anchor", <<>>)) :
        i \in {j \in 1..Len(references) :
                  StartsWith(Upper(Get(references[j], "anchor", <<>>)), <<"R", "F", "C">>)}}

\* What the body of a try statement comes to: a value, or an exception.
Value(value) == [raised |-> FALSE, type |-> "", value |-> value]
Raise(type) == [raised |-> TRUE, type |-> type, value |-> {}]
\* isinstance(exception, class)
IsInstance(type, class) ==
    \/ class = "Exception" \/ type = class
    \/ class = "OSError" /\ type = "FileNotFoundError"
\* The except clauses of a function: each logs a warning, and the function
\* returns rfc_refs as it is then.
TryExcept(body, rfc_refs, classes) ==
    IF body.raised /\ \E class \in classes : IsInstance(body.type, class)
    THEN Value(rfc_refs) ELSE body

\* The except clauses that name their exception.
NamedXmlHandlers == {"XMLSyntaxError", "FileNotFoundError"}
XmlHandlers == {"XMLSyntaxError", "FileNotFoundError", "Exception"}

\* etree.parse raises OSError for a file it cannot read and XMLSyntaxError
\* for one that is not well-formed; nothing is added to rfc_refs before.
extract_rfc_references_from_xml(xml_file) ==
    LET back == Find(xml_file.content, "back")
    IN TryExcept(IF ~xml_file.readable THEN Raise("OSError")
                 ELSE IF ~xml_file.wellformed THEN Raise("XMLSyntaxError")
                 ELSE IF back = None THEN Value({})
                 ELSE Value(RfcAnchors(Descendants(back, "reference"))),
                 {}, XmlHandlers)

\* re.search(r"/rfc/rfc(\d+)", href): rfc and the digits of the first match.
HrefMatch(href) ==
    LET at == {i \in 1..(Len(href) - 1) : href[i] = "/rfc/rfc" /\ href[i + 1] \in DigitRuns}
    IN IF at = {} THEN {}
       ELSE {<<"r", "f", "c", href[(CHOOSE i \in at : \A j \in at : i <= j) + 1]>>}
\* \w
WordChars == {"R", "F", "C", "r", "f", "c", "s", "e"} \cup DigitRuns
\* re.compile(r"\bRFC[\s-]?(\d+)\b", re.IGNORECASE).finditer(text): rfc and
\* the digits of every match.
TextMatches(text) ==
    {<<"r", "f", "c", text[j]>> :
        j \in {k \in 4..Len(text) :
                  /\ text[k] \in DigitRuns
                  /\ k = Len(text) \/ text[k + 1] \notin WordChars
                  /\ \E i \in {k - 3, k - 4} :
                       /\ i >= 1 /\ Lower(SubSeq(text, i, i + 2)) = <<"r", "f", "c">>
                       /\ i = 1 \/ text[i - 1] \notin WordChars
                       /\ i = k - 4 => text[k - 1] \in Whitespace \cup {"-"}}}

HtmlHandlers == {"FileNotFoundError", "Exception"}

\* open() raises FileNotFoundError and f.read() UnicodeDecodeError; the
\* parser takes any text.
extract_rfc_references_from_html(html_file) ==
    TryExcept(IF ~html_file.readable THEN Raise("FileNotFoundError")
              ELSE IF ~html_file.decodable THEN Raise("UnicodeDecodeError")
              ELSE Value(UNION {HrefMatch(html_file.links[i]) : i \in 1..Len(html_file.links)}
                         \cup TextMatches(html_file.text)),
              {}, HtmlHandlers)

----------------------------------------------------------------------------
(* The functions of utils.py, each called on its arguments.                *)

NumberChars == {"R", "f", "C", " ", "\t", "1"}
RfcInputs == SeqsUpTo(NumberChars, MaxChars)

ReferenceAnchors ==
    {<<"R", "F", "C", "2119">>, <<"r", "f", "c", "7752">>, <<"R", "F", "C", "X", "M", "L">>,
     <<"I", "-", "D">>, <<>>}
AnchoredReference(anchor) ==
    Elem("reference", IF anchor = <<>> THEN NoAttrs ELSE Attr1("anchor", anchor), <<>>, <<>>)
\* The references in a group of back, directly in references of back, in
\* middle, or in a document without back.
CitingDocuments ==
    {LET refs == [i \in 1..Len(anchors) |-> AnchoredReference(anchors[i])]
     IN CASE place = "group" ->
                Rfc(NoAttrs, <<Elem("back", NoAttrs, <<>>,
                    <<Elem("references", NoAttrs, <<>>,
                           <<Elem("references", NoAttrs, <<>>, refs)>>)>>)>>)
          [] place = "direct" ->
                Rfc(NoAttrs, <<Elem("back", NoAttrs, <<>>, <<Elem("references", NoAttrs, <<>>, refs)>>)>>)
          [] place = "middle" ->
                Rfc(NoAttrs, <<Elem("middle", NoAttrs, <<>>, refs), Elem("back", NoAttrs, <<>>, <<>>)>>)
          [] OTHER -> Rfc(NoAttrs, <<Elem("middle", NoAttrs, <<>>, refs)>>) :
        <<anchors, place>> \in SeqsUpTo(ReferenceAnchors, MaxRefs) \X {"group", "direct", "middle", "none"}}
CitingXmlFiles ==
    {XmlFile(TRUE, TRUE, d) : d \in CitingDocuments}
    \cup {XmlFile(FALSE, TRUE, None), XmlFile(TRUE, FALSE, None)}

Hrefs ==
    {<<"/rfc/rfc", "2119">>, <<"https://www.rfc-editor.org", "/rfc/rfc", "7752", ".html">>,
     <<"/rfc/rfc", "x">>, <<"#section-1">>}
TextPieces ==
    {<<"R", "F", "C", " ", "2119">>, <<"r", "f", "c", "-", "7752">>, <<"R", "f", "c", "1">>,
     <<"s", "R", "F", "C", "1">>, <<"R", "F", "C", "1", "s">>, <<"s", "e", "e">>}
HtmlPage(readable, decodable, links, text) ==
    [readable |-> readable, decodable |-> decodable, links |-> links, text |-> text]
CitingHtmlFiles ==
    {HtmlPage(TRUE, TRUE, links, JoinWith(<<" ">>, pieces)) :
        <<links, pieces>> \in SeqsUpTo(Hrefs, MaxRefs) \X SeqsUpTo(TextPieces, MaxRefs)}
    \cup {HtmlPage(FALSE, TRUE, <<>>, <<>>), HtmlPage(TRUE, FALSE, <<>>, <<>>)}

UtilsArguments ==
    {[fn |-> "normalize_rfc_number", rfc_input |-> x] : x \in RfcInputs}
    \cup {[fn |-> "extract_rfc_references_from_xml", xml_file |-> f] : f \in CitingXmlFiles}
    \cup {[fn |-> "extract_rfc_references_from_html", html_file |-> f] : f \in CitingHtmlFiles}

UtilsInit ==
    /\ conv = "utils"
    /\ file \in UtilsArguments
    /\ pc = "constructed"
    /\ root = None
    /\ soup = NoSoup
    /\ markdown_lines = <<>>
    /\ toc_entries = <<>>
    /\ section_id_to_anchor = NoMap
    /\ metadata = NoMap
    /\ sections = <<>>
    /\ result = NoResult
    /\ error = NoError
    /\ calls = 0
    /\ processed = {} /\ output_dir = {} /\ stack = <<>> /\ requests = <<>>

\* A call comes back with its value, or the exception it let through.
Outcome(body, next) ==
    /\ result' = IF body.raised THEN NoResult ELSE [returned |-> TRUE, value |-> body.value]
    /\ error' = IF body.raised THEN [raised |-> TRUE, type |-> body.type, cause |-> ""] ELSE error
    /\ pc' = IF body.raised THEN "raised" ELSE next
    /\ UNCHANGED <<downloader, calls, conv, file, root, soup, toc_entries, section_id_to_anchor,
                   metadata, sections>>

NormalizeRfcNumber ==
    /\ pc = "constructed" /\ file.fn = "normalize_rfc_number"
    /\ Outcome(Value(normalize_rfc_number(file.rfc_input)), "number")
    /\ UNCHANGED markdown_lines

NormalizeRfcNumberAgain ==
    /\ pc = "number"
    /\ Outcome(Value(normalize_rfc_number(result.value)), "number twice")
    /\ markdown_lines' = <<result.value>>

ExtractRfcReferencesFromXml ==
    /\ pc = "constructed" /\ file.fn = "extract_rfc_references_from_xml"
    /\ Outcome(extract_rfc_references_from_xml(file.xml_file), "references")
    /\ UNCHANGED markdown_lines

ExtractRfcReferencesFromHtml ==
    /\ pc = "constructed" /\ file.fn = "extract_rfc_references_from_html"
    /\ Outcome(extract_rfc_references_from_html(file.html_file), "references")
    /\ UNCHANGED markdown_lines

UtilsNext ==
    \/ NormalizeRfcNumber \/ NormalizeRfcNumberAgain
    \/ ExtractRfcReferencesFromXml \/ ExtractRfcReferencesFromHtml

UtilsSpec == UtilsInit /\ [][UtilsNext]_vars

\* The text is the input in lower case without its spaces and without the
\* white space at its ends.
IsCleaned(text, input) ==
    /\ text = <<>> \/ (Head(text) \notin Whitespace /\ Last(text) \notin Whitespace)
    /\ \E before, after \in 0..Len(input) :
        LET unspaced == SelectSeq(input, LAMBDA ch : ch # " ")
        IN /\ before + Len(text) + after = Len(unspaced)
           /\ \A i \in 1..Len(unspaced) :
                IF i <= before \/ i > before + Len(text) THEN unspaced[i] \in Whitespace
                ELSE text[i - before] = LowerChar(unspaced[i])

(* C21: normalize_rfc_number returns a number in lower case, without       *)
(* spaces, that starts with rfc; it puts rfc in front only of an input     *)
(* that, without its spaces and in lower case, does not start with rfc;    *)
(* normalizing the result again returns it as it is.                       *)
C21_NormalizeIdempotent ==
    /\ (conv = "utils" /\ pc \in {"number", "number twice"}) =>
          /\ StartsWith(result.value, <<"r", "f", "c">>)
          /\ \A i \in 1..Len(result.value) :
                result.value[i] # " " /\ result.value[i] \notin {"R", "F", "C"}
    /\ (conv = "utils" /\ pc = "number") =>
          \E cleaned \in {SubSeq(result.value, k, Len(result.value)) : k \in {1, 4}} :
              /\ IsCleaned(cleaned, file.rfc_input)
              /\ StartsWith(cleaned, <<"r", "f", "c">>) <=> cleaned = result.value
    /\ (conv = "utils" /\ pc = "number twice") => result.value = markdown_lines[1]
C21_Witness ==
    /\ conv = "utils" /\ pc = "number twice"
    /\ file.rfc_input = <<" ", "R", "f", "C">>
    /\ result.value = <<"r", "f", "c">>


(* C22: every element of the set that extract_rfc_references_from_xml      *)
(* returns is rfc in lower case followed by decimal digits only.           *)
C22_OnlyRfcAndDigits ==
    (conv = "utils" /\ pc = "references" /\ file.fn = "extract_rfc_references_from_xml") =>
        \A ref \in result.value :
            /\ Len(ref) >= 4 /\ SubSeq(ref, 1, 3) = <<"r", "f", "c">>
            /\ \A i \in 4..Len(ref) : ref[i] \in DigitRuns

\* The document of an XML file has no reference under back; the page of an
\* HTML file has no link and no number in its text.
WithoutReferences(f) ==
    IF file.fn = "extract_rfc_references_from_xml"
    THEN \A i \in 1..Len(f.content.kids) :
            f.content.kids[i].tag = "back" => f.content.kids[i].kids = <<>>
    ELSE f.links = <<>> /\ \A i \in 1..Len(f.text) : f.text[i] \notin DigitRuns
ExtractArgument ==
    IF file.fn = "extract_rfc_references_from_xml" THEN file.xml_file ELSE file.html_file

(* C23: extract_rfc_references_from_xml and _from_html never raise; for a  *)
(* file that is not there or cannot be parsed, and for a document without  *)
(* references, they return the empty set.                                  *)
C23_ExtractNeverRaises ==
    (conv = "utils" /\ file.fn # "normalize_rfc_number") =>
        /\ pc # "raised" /\ ~error.raised
        /\ pc = "references" =>
             /\ result.returned
             /\ ~ExtractArgument.readable => result.value = {}
             /\ (file.fn = "extract_rfc_references_from_xml" /\ ~ExtractArgument.wellformed)
                   => result.value = {}
             /\ (file.fn = "extract_rfc_references_from_html" /\ ~ExtractArgument.decodable)
                   => result.value = {}
             /\ WithoutReferences(ExtractArgument) => result.value = {}
C23_Witness ==
    /\ conv = "utils" /\ pc = "references" /\ file.fn = "extract_rfc_references_from_xml"
    /\ ~file.xml_file.readable /\ result.returned /\ result.value = {}


----------------------------------------------------------------------------
(* lib/downloader.py.  The network is what rfc-editor.org answers to the   *)
(* request for a file; the output directory is the set of its files.       *)

MaxHops == 2

\* What a request and the writing of its file come to: the file is written,
\* the server answers 404 or 500, no connection, a timeout, or open() fails.
Statuses == {"ok", "404", "500", "connection", "timeout", "oserror"}
\* The statuses that raise_for_status and requests.get turn into an exception
\* of class RequestException.
RequestExceptions == {"404", "500", "connection", "timeout"}

RECURSIVE WithoutRfc(_)
\* rfc_number.replace("rfc", "")
WithoutRfc(text) ==
    IF text = <<>> THEN <<>>
    ELSE IF StartsWith(text, <<"r", "f", "c">>) THEN WithoutRfc(SubSeq(text, 4, Len(text)))
    ELSE <<Head(text)>> \o WithoutRfc(Tail(text))
\* output_dir / f"rfc{rfc_num}.{ext}" and output_dir / f"{rfc_number}.xml"
FileOf(rfc_num, ext) == [name |-> <<"r", "f", "c">> \o rfc_num, ext |-> ext]
XmlPathOf(rfc_number) == [name |-> rfc_number, ext |-> "xml"]
NoPath == [name |-> <<>>, ext |-> "None"]

\* requests.get(url), raise_for_status and the writing of the file.
Fetch(net, f) == net[f.name][f.ext]
Got(f) == [call |-> "get", of |-> f]
\* What a download function comes to: the path it returns or the exception
\* it lets through, the directory and the requests made.
Downloaded(value, dir, made) ==
    [raised |-> FALSE, type |-> "", value |-> value, output_dir |-> dir, requests |-> made]
Failed(type, dir, made) ==
    [raised |-> TRUE, type |-> type, value |-> NoPath, output_dir |-> dir, requests |-> made]

download_rfc_html(rfc_number, dir, net) ==
    LET html_file == FileOf(WithoutRfc(rfc_number), "html")
    IN IF Fetch(net, html_file) = "ok"
       THEN Downloaded(html_file, dir \cup {html_file}, <<Got(html_file)>>)
       ELSE Downloaded(NoPath, dir, <<Got(html_file)>>)

\* The PDF part of download_rfc: the primary URL, the .txt.pdf URL after a
\* 404.  The try statement around the second request catches
\* RequestException only.
FetchPdf(rfc_num, dir, net) ==
    LET pdf_file == FileOf(rfc_num, "pdf")
        fallback == FileOf(rfc_num, "txt.pdf")
    IN IF Fetch(net, pdf_file) = "ok"
       THEN Downloaded(pdf_file, dir \cup {pdf_file}, <<Got(pdf_file)>>)
       ELSE IF Fetch(net, pdf_file) # "404"
       THEN Downloaded(NoPath, dir, <<Got(pdf_file)>>)
       ELSE IF Fetch(net, fallback) = "ok"
       THEN Downloaded(pdf_file, dir \cup {pdf_file}, <<Got(pdf_file), Got(fallback)>>)
       ELSE IF Fetch(net, fallback) \in RequestExceptions
       THEN Downloaded(NoPath, dir, <<Got(pdf_file), Got(fallback)>>)
       ELSE Failed("OSError", dir, <<Got(pdf_file), Got(fallback)>>)

download_rfc(rfc_number, dir, fetch_pdf, net) ==
    LET rfc_num == WithoutRfc(rfc_number)
        xml_file == FileOf(rfc_num, "xml")
        html == download_rfc_html(rfc_number, dir, net)
        pdf == FetchPdf(rfc_num, dir \cup {xml_file}, net)
    IN IF Fetch(net, xml_file) = "404"
       THEN [html EXCEPT !.requests = <<Got(xml_file)>> \o html.requests]
       ELSE IF Fetch(net, xml_file) # "ok"
       THEN Downloaded(NoPath, dir, <<Got(xml_file)>>)
       ELSE IF ~fetch_pdf
       THEN Downloaded(xml_file, dir \cup {xml_file}, <<Got(xml_file)>>)
       ELSE [pdf EXCEPT !.value = IF pdf.raised THEN NoPath ELSE xml_file,
                        !.requests = <<Got(xml_file)>> \o pdf.requests]

\* The citations of the document in a file: those of the RFC when the file
\* is in the directory and holds its XML, none otherwise.
extract_rfc_references(xml_file, dir, cites) ==
    IF xml_file \in dir /\ xml_file.ext = "xml" /\ xml_file.name \in DOMAIN cites
    THEN cites[xml_file.name] ELSE {}


\* A traversal that keeps no account of the RFCs it has processed.
NeverProcessed(rfc_number, seen) == FALSE
\* if rfc_number in processed
AlreadyProcessed(rfc_number, seen) == rfc_number \in seen

\* A call of download_rfc_recursive that has not returned: its arguments,
\* its result dictionary, the references it has still to follow and where
\* it is: called, listing its references, or returning.
Frame(rfc_number, max_depth) ==
    [rfc_number |-> rfc_number, max_depth |-> max_depth, at |-> "called",
     result |-> NoMap, references |-> {}]
Top == stack[Len(stack)]
\* dict.update(other)
MapUpdate(m, other) ==
    [k \in DOMAIN m \cup DOMAIN other |-> IF k \in DOMAIN other THEN other[k] ELSE m[k]]
\* The top call goes on as the frame says.
Continue(frame) == [stack EXCEPT ![Len(stack)] = frame]

----------------------------------------------------------------------------
(* The RFCs on the server, their citations, and the calls of the           *)
(* downloader.                                                             *)

Rfc1 == <<"r", "f", "c", "1">>
Rfc2119 == <<"r", "f", "c", "2119">>
Rfc7752 == <<"r", "f", "c", "7752">>
Rfc8174 == <<"r", "f", "c", "8174">>
RfcNumbers == {Rfc1, Rfc2119, Rfc7752, Rfc8174}
\* The citations a document may have; every set of them is a citation graph.
Citations ==
    {<<Rfc1, Rfc2119>>, <<Rfc1, Rfc7752>>, <<Rfc2119, Rfc7752>>, <<Rfc7752, Rfc8174>>,
     <<Rfc7752, Rfc1>>, <<Rfc2119, Rfc2119>>}
CitationGraphs ==
    {[n \in RfcNumbers |-> {m \in RfcNumbers : <<n, m>> \in edges}] : edges \in SUBSET Citations}
\* A server that has every file, and one on which the files of an RFC have
\* these statuses.
EveryFile == [n \in RfcNumbers |-> [ext \in {"xml", "html", "pdf", "txt.pdf"} |-> "ok"]]
Except(n, xml, html) == [EveryFile EXCEPT ![n]["xml"] = xml, ![n]["html"] = html]
Servers ==
    {EveryFile}
    \cup {Except(n, st[1], st[2]) :
            n \in {Rfc2119, Rfc7752}, st \in {<<"404", "ok">>, <<"404", "404">>, <<"500", "ok">>}}
\* Every answer to the four requests for one RFC.
Answers ==
    {[n \in RfcNumbers |-> [ext \in {"xml", "html", "pdf", "txt.pdf"} |-> a[ext]]] :
        a \in [{"xml", "html", "pdf", "txt.pdf"} -> Statuses]}

DownloadArguments ==
    {[fn |-> "download_rfc", rfc_number |-> Rfc1, fetch_pdf |-> fetch_pdf, net |-> net,
      files |-> {}] :
        fetch_pdf \in BOOLEAN, net \in Answers}
    \cup {[fn |-> "download_rfc_recursive", rfc_number |-> <<"R", "F", "C", " ", "1">>,
           fetch_pdf |-> FALSE, max_depth |-> max_depth, net |-> net, cites |-> cites,
           files |-> files] :
            max_depth \in (0 - 1)..MaxHops, net \in Servers, cites \in CitationGraphs,
            files \in {{}, {XmlPathOf(Rfc2119)}}}

DownloadInit ==
    /\ conv = "downloader"
    /\ file \in DownloadArguments
    /\ pc = "constructed"
    /\ root = None
    /\ soup = NoSoup
    /\ markdown_lines = <<>>
    /\ toc_entries = <<>>
    /\ section_id_to_anchor = NoMap
    /\ metadata = NoMap
    /\ sections = <<>>
    /\ result = NoResult
    /\ error = NoError
    /\ calls = 0
    /\ processed = {} /\ output_dir = file.files /\ stack = <<>> /\ requests = <<>>

Converter == <<conv, file, root, soup, markdown_lines, toc_entries, section_id_to_anchor,
               metadata, sections, calls>>

\* download_rfc(rfc_number, output_dir, fetch_pdf)
DownloadRfc ==
    /\ pc = "constructed" /\ file.fn = "download_rfc"
    /\ LET d == download_rfc(file.rfc_number, output_dir, file.fetch_pdf, file.net)
       IN /\ output_dir' = d.output_dir
          /\ requests' = requests \o d.requests
          /\ result' = IF d.raised THEN NoResult ELSE [returned |-> TRUE, value |-> d.value]
          /\ error' = IF d.raised THEN [raised |-> TRUE, type |-> d.type, cause |-> ""] ELSE error
          /\ pc' = IF d.raised THEN "raised" ELSE "returned"
    /\ UNCHANGED <<Converter, processed, stack>>

\* The call of download_rfc_recursive on the root.
CallDownloadRfcRecursive ==
    /\ pc = "constructed" /\ file.fn = "download_rfc_recursive"
    /\ stack' = <<Frame(file.rfc_number, file.max_depth)>>
    /\ pc' = "running"
    /\ UNCHANGED <<Converter, processed, output_dir, requests, result, error>>

\* download_rfc_recursive from its first line to the listing of the
\* references: the processed set, the download, the result entry.
DownloadRfcRecursive ==
    /\ pc = "running" /\ Top.at = "called"
    /\ \E rfc_number \in {normalize_rfc_number(Top.rfc_number)} :
       \E d \in {download_rfc(rfc_number, output_dir, file.fetch_pdf, file.net)} :
        LET xml_file == XmlPathOf(rfc_number)
            there == xml_file \in output_dir
            dir == IF there THEN output_dir ELSE d.output_dir
            references == IF Top.max_depth > 0
                          THEN extract_rfc_references(xml_file, dir, file.cites) ELSE {}
        IN IF AlreadyProcessed(rfc_number, processed)
           THEN /\ stack' = Continue([Top EXCEPT !.at = "returning"])
                /\ UNCHANGED <<processed, output_dir, requests, pc, error>>
           ELSE /\ processed' = processed \cup {rfc_number}
                /\ output_dir' = dir
                /\ requests' = IF there THEN requests
                               ELSE requests \o <<[call |-> "download_rfc", of |-> rfc_number]>>
                                    \o d.requests
                /\ IF ~there /\ d.raised
                   THEN /\ pc' = "raised"
                        /\ error' = [raised |-> TRUE, type |-> d.type, cause |-> ""]
                        /\ stack' = stack
                   ELSE /\ pc' = pc /\ error' = error
                        /\ stack' = Continue(
                             IF ~there /\ d.value = NoPath
                             THEN [Top EXCEPT !.at = "returning"]
                             ELSE [Top EXCEPT !.rfc_number = rfc_number,
                                              !.at = IF Top.max_depth > 0 THEN "listing"
                                                     ELSE "returning",
                                              !.result = MapPut(NoMap, rfc_number, xml_file),
                                              !.references = references])
    /\ UNCHANGED <<Converter, result>>

\* for ref_rfc in references: the recursive call on the next reference.
FollowReference ==
    /\ pc = "running" /\ Top.at = "listing"
    /\ \E ref_rfc \in Top.references :
        stack' = Append(Continue([Top EXCEPT !.references = Top.references \ {ref_rfc}]),
                        Frame(ref_rfc, Top.max_depth - 1))
    /\ UNCHANGED <<Converter, processed, output_dir, requests, pc, result, error>>

\* return result; the caller's result.update(ref_result).
ReturnFromRecursive ==
    /\ pc = "running"
    /\ Top.at = "returning" \/ (Top.at = "listing" /\ Top.references = {})
    /\ IF Len(stack) = 1
       THEN /\ result' = [returned |-> TRUE, value |-> Top.result]
            /\ pc' = "returned"
            /\ stack' = <<>>
       ELSE /\ stack' = [Front(stack) EXCEPT ![Len(stack) - 1].result =
                            MapUpdate(stack[Len(stack) - 1].result, Top.result)]
            /\ UNCHANGED <<result, pc>>
    /\ UNCHANGED <<Converter, processed, output_dir, requests, error>>

DownloadNext ==
    \/ DownloadRfc \/ CallDownloadRfcRecursive \/ DownloadRfcRecursive
    \/ FollowReference \/ ReturnFromRecursive

DownloadSpec == DownloadInit /\ [][DownloadNext]_vars
\* Every call that can go on does go on.
DownloadFairSpec == DownloadSpec /\ WF_vars(DownloadNext)


----------------------------------------------------------------------------
(* The claims about the downloader.                                        *)

RECURSIVE Within(_, _, _)
\* The RFCs at citation distance at most d of these.
Within(cites, from, d) ==
    IF d <= 0 THEN from
    ELSE Within(cites, from \cup UNION {cites[n] : n \in from}, d - 1)
\* A recursive download has returned.
RecursiveReturned == pc = "returned" /\ file.fn = "download_rfc_recursive"
\* The RFCs the recursive download has in its result.
Fetched == DOMAIN result.value

\* C24: when every download succeeds, download_rfc_recursive with
\* max_depth d >= 0 has fetched exactly the RFCs at citation distance at
\* most d of the root, in whatever order the citations are followed.
C24_BreadthFirstWithinDepth ==
    (RecursiveReturned /\ file.net = EveryFile /\ file.max_depth >= 0)
        => Fetched = Within(file.cites, {Rfc1}, file.max_depth)


\* The call of download_rfc is over, by a return or by an exception.
DownloadRfcOver == pc \in {"returned", "raised"} /\ file.fn = "download_rfc"
\* The file was requested from the server.
Requested(f) == \E k \in 1..Len(requests) : requests[k].call = "get" /\ requests[k].of = f
\* The answer of the server to the request for this variant of the RFC.
Answer(ext) == file.net[file.rfc_number][ext]

\* C25: download_rfc returns the XML path whenever the XML download
\* succeeds, whatever becomes of the PDF (the fallback URL being tried only
\* after a 404 on the primary one); it tries the HTML variant exactly when
\* the XML request fails with 404 and returns the HTML path when that
\* succeeds; every other failure returns None.
C25_XmlPathWhateverThePdf ==
    DownloadRfcOver =>
        LET num == WithoutRfc(file.rfc_number)
        IN /\ pc = "returned"
           /\ Answer("xml") = "ok" => result.value = FileOf(num, "xml")
           /\ Requested(FileOf(num, "html")) <=> Answer("xml") = "404"
           /\ (Answer("xml") = "404" /\ Answer("html") = "ok")
                => result.value = FileOf(num, "html")
           /\ (Answer("xml") # "ok" /\ ~(Answer("xml") = "404" /\ Answer("html") = "ok"))
                => result.value = NoPath
           /\ Requested(FileOf(num, "txt.pdf"))
                => (Requested(FileOf(num, "pdf")) /\ Answer("pdf") = "404")


\* The calls of download_rfc on this RFC, as places in the log of requests.
DownloadCalls(rfc_number) ==
    {k \in 1..Len(requests) :
        requests[k].call = "download_rfc" /\ requests[k].of = rfc_number}
\* download_rfc was called at most once on every RFC.
OncePerRfc == \A n \in RfcNumbers : Cardinality(DownloadCalls(n)) <= 1

\* C27: download_rfc_recursive returns on every citation graph, cyclic and
\* self-citing ones included, for every max_depth, and until then calls
\* download_rfc at most once on every normalized RFC number.
C27_TerminatesOncePerRfc ==
    /\ []OncePerRfc
    /\ <>(file.fn = "download_rfc_recursive" => pc = "returned")
\* A traversal has returned in which an RFC cites itself, another is cited
\* by two documents that were both processed, and its one download failed.
C27_Witness ==
    /\ RecursiveReturned
    /\ Rfc2119 \in file.cites[Rfc2119]
    /\ Rfc7752 \in file.cites[Rfc1] \cap file.cites[Rfc2119]
    /\ Rfc1 \in file.cites[Rfc7752]
    /\ {Rfc1, Rfc2119} \subseteq Fetched /\ Rfc7752 \notin Fetched
    /\ Cardinality(DownloadCalls(Rfc7752)) = 1
    /\ file.max_depth = MaxHops


\* download_rfc was called on the RFC and left no file of it.
DownloadFailed(rfc_number) ==
    /\ DownloadCalls(rfc_number) # {}
    /\ \A ext \in {"xml", "html"} : FileOf(WithoutRfc(rfc_number), ext) \notin output_dir

\* C29: every path in the dictionary download_rfc_recursive returns is a
\* file of the output directory, also that of an RFC that came through the
\* HTML variant, and an RFC whose download failed has no entry.
C29_ReturnedPathsExist ==
    RecursiveReturned =>
        /\ \A n \in Fetched : result.value[n] \in output_dir
        /\ \A n \in RfcNumbers : DownloadFailed(n) => n \notin Fetched



----------------------------------------------------------------------------
(* The claim about the places of the reference entries.                    *)

\* The places of the lines that are the line of this reference.
LinesOf(ref) == {k \in 1..Len(markdown_lines) : markdown_lines[k] = ReferenceLine(root, ref)}

\* C28: every reference entry of the back matter that has a front has its
\* line exactly once, whether it stands in a group of a wrapping references
\* element or directly in a references element of back, and whether back
\* has one references element or several.
C28_EveryLayoutRendered ==
    (conv = "xml" /\ pc \in {"back", "returned"} /\ file.content \in LayoutDocuments) =>
        \A ref \in Range(Descendants(Find(root, "back"), "reference")) :
            Find(ref, "front") # None => Cardinality(LinesOf(ref)) = 1

----------------------------------------------------------------------------
(* The claims about the definition list.                                   *)

\* The nested elements of the description of a definition document.
NestedOf(doc) == doc.kids[1].kids[1].kids[3].kids[2].kids
\* The middle of a definition document has been rendered.
DefinitionRendered ==
    /\ conv = "xml" /\ file.content \in DefinitionDocuments
    /\ pc \in {"middle", "back", "returned"}
\* The places of the lines that hold this text.
LinesWith(text) ==
    {k \in 1..Len(markdown_lines) :
        \E j \in 1..Len(markdown_lines[k]) : markdown_lines[k][j] = text}
\* The rendering of a nested figure or definition list on its own.
Alone(e) == IF e.tag = "figure" THEN _process_figure(e) ELSE _process_definition_list(e)
\* The lines from this place on are those lines.
LinesAt(k, lines) ==
    /\ k + Len(lines) - 1 <= Len(markdown_lines)
    /\ SubSeq(markdown_lines, k, k + Len(lines) - 1) = lines

C30_EveryNestedChildRendered ==
    DefinitionRendered =>
        LET kids == NestedOf(file.content)
            At(i) == LinesWith(Marker(kids[i].tag, i))
        IN /\ \A i \in 1..Len(kids) :
                \E k \in At(i) : \E t \in LinesWith("Term") : t < k
           /\ \A i, j \in 1..Len(kids) :
                i < j => \A k \in At(i) : \A l \in At(j) : k < l

====
